---- MODULE Spec2Model ----
(***************************************************************************)
(* A model of the rt-rust ray tracer: the 4x4 matrix algebra, the object   *)
(* tree and its prepare() pass, the intersection helpers (hit, refraction  *)
(* indices, CSG rule), the recursive colour computation of World and the   *)
(* concurrent render loop of Camera.                                       *)
(***************************************************************************)
EXTENDS Integers, Sequences, FiniteSets, TLC

VARIABLES
    \* ---- object tree under construction (objects.rs, shapes/groups.rs, shapes/csg.rs)
    objs,       \* the objects owned by the scene-construction code, in creation order
    fresh,      \* fresh[i]: prepare() was the last operation applied to objs[i]
    \* ---- Camera::render (cameras.rs)
    cam,        \* the Camera fields render reads
    caller_world, \* the World the caller passed by &mut
    world,      \* the clone render prepares and shares (NoWorld before the clone)
    prepare_calls, \* how many times prepare() ran on the clone
    mpc,        \* position of the thread that called render
    spawned,    \* loop index i of the spawn loop = workers spawned so far
    joined,     \* handles joined so far
    wpc,        \* wpc[i]: position of worker i
    wx, wy,     \* wx[i], wy[i]: pixel worker i is working on
    wcolor,     \* wcolor[i]: the colour worker i traced for its pixel
    image,      \* Canvas.pixels of the shared framebuffer (index y*width + x, from 0)
    image_holders, \* threads holding the canvas mutex
    pb_holders, \* threads holding the progress-bar mutex
    pb,         \* progress bar position
    image_refs, \* strong count of the Arc around the canvas mutex
    result,     \* the canvas render returned (NoCanvas until then)
    writes,     \* writes[idx]: set of <<worker, x, y>> that wrote canvas index idx
    nwrites,    \* nwrites[idx]: number of write_pixel calls that hit canvas index idx
    nlock,      \* nlock[i]: number of canvas-mutex acquisitions of worker i
    \* ---- World::color_at (worlds.rs)
    cdepth,     \* the depth the outermost color_at was called with
    cstack,     \* the nested color_at calls in progress, outermost first
    cunderflow, \* depth - 1 was evaluated at depth 0
    cstatus,    \* idle, running or returned
    \* ---- intersection lists (intersections.rs, shapes/csg.rs)
    xs,         \* an intersection list
    last,       \* the last call made on it: function, arguments, result
    \* ---- rays against a scene (objects.rs, bounds.rs, shapes/*.rs)
    scene,      \* the root object of the scene
    prepared,   \* prepare() was called on scene
    the_ray,    \* the ray cast at it
    got,        \* the last intersection call: function, result
    \* ---- Camera::rays_for_pixel (cameras.rs)
    lens,       \* the Camera fields rays_for_pixel reads, and the pixel asked for
    rays,       \* the rays it returned (NoRays before the call)
    \* ---- is_shadowed (lights/point_lights.rs)
    probe,      \* light_position, point and what hit_fn returns for the shadow ray
    shadow,     \* the call's result
    \* ---- Csg::filter_intersections (shapes/csg.rs)
    csg,        \* the CSG object
    csg_xs,     \* the intersections handed to filter_intersections
    filtered,   \* the call's result, with the loop's flags as it ended
    \* ---- single calls: World::refracted_color (worlds.rs), check_cap (shapes/cones.rs, shapes/cylinders.rs)
    pure_args,  \* the function called and its arguments
    pure_ret    \* what it returned (NoReturn before the call)

treeVars == <<objs, fresh>>
renderVars == <<cam, caller_world, world, prepare_calls, mpc, spawned, joined, wpc, wx, wy,
                wcolor, image, image_holders, pb_holders, pb, image_refs, result,
                writes, nwrites, nlock>>
colorVars == <<cdepth, cstack, cunderflow, cstatus>>
isectVars == <<xs, last>>
geomVars == <<scene, prepared, the_ray, got>>
lensVars == <<lens, rays>>
shadowVars == <<probe, shadow>>
csgVars == <<csg, csg_xs, filtered>>
pureVars == <<pure_args, pure_ret>>
vars == <<treeVars, renderVars, colorVars, isectVars, geomVars, lensVars, shadowVars, csgVars, pureVars>>
notTree == <<renderVars, colorVars, isectVars, geomVars, lensVars, shadowVars, csgVars, pureVars>>
notRender == <<treeVars, colorVars, isectVars, geomVars, lensVars, shadowVars, csgVars, pureVars>>
notColor == <<treeVars, renderVars, isectVars, geomVars, lensVars, shadowVars, csgVars, pureVars>>
notIsect == <<treeVars, renderVars, colorVars, geomVars, lensVars, shadowVars, csgVars, pureVars>>
notGeom == <<treeVars, renderVars, colorVars, isectVars, lensVars, shadowVars, csgVars, pureVars>>
notLens == <<treeVars, renderVars, colorVars, isectVars, geomVars, shadowVars, csgVars, pureVars>>
notShadow == <<treeVars, renderVars, colorVars, isectVars, geomVars, lensVars, csgVars, pureVars>>
notCsg == <<treeVars, renderVars, colorVars, isectVars, geomVars, lensVars, shadowVars, pureVars>>
notPure == <<treeVars, renderVars, colorVars, isectVars, geomVars, lensVars, shadowVars, csgVars>>

None == "None"

\* ------------------------------------------------------------------ bounds
MaxObjs == 3
MaxH == 2
MaxV == 3
MaxThreads == 2
MaxOversampling == 1
MaxBlur == 1
MaxLen == 3
MaxT == 1
MaxDepth == 2
MaxChildren == 2
MaxCoord == 3
MaxSamples == 2
MaxHits == 4
MaxNest == 1

\* ------------------------------------------------------------------ matrices.rs
Dim == 1..4

Matrix_identity == [i \in Dim |-> [j \in Dim |-> IF i = j THEN 1 ELSE 0]]

transpose(m) == [j \in Dim |-> [i \in Dim |-> m[i][j]]]

mul(a, b) ==
    [i \in Dim |-> [j \in Dim |->
        a[i][1] * b[1][j] + a[i][2] * b[2][j] + a[i][3] * b[3][j] + a[i][4] * b[4][j]]]

\* rows/columns of a with one index removed, in order
Others(n, k) == [i \in 1..(n - 1) |-> IF i < k THEN i ELSE i + 1]

determinant2(m) == m[1][1] * m[2][2] - m[1][2] * m[2][1]

submatrix3(m, row, column) ==
    [i \in 1..2 |-> [j \in 1..2 |-> m[Others(3, row)[i]][Others(3, column)[j]]]]

cofactor3(m, row, column) ==
    LET minor == determinant2(submatrix3(m, row, column))
    IN IF (row + column) % 2 = 0 THEN minor ELSE -minor

determinant3(m) ==
    m[1][1] * cofactor3(m, 1, 1) + m[1][2] * cofactor3(m, 1, 2) + m[1][3] * cofactor3(m, 1, 3)

submatrix4(m, row, column) ==
    [i \in 1..3 |-> [j \in 1..3 |-> m[Others(4, row)[i]][Others(4, column)[j]]]]

cofactor4(m, row, column) ==
    LET minor == determinant3(submatrix4(m, row, column))
    IN IF (row + column) % 2 = 0 THEN minor ELSE -minor

determinant4(m) ==
    m[1][1] * cofactor4(m, 1, 1) + m[1][2] * cofactor4(m, 1, 2)
    + m[1][3] * cofactor4(m, 1, 3) + m[1][4] * cofactor4(m, 1, 4)

\* floats.rs equals(det, 0.0) on the integer-valued matrices of the model:
\* |det| < EPSILON iff det = 0
is_invertible(m) == determinant4(m) # 0

\* a / d for the exact quotients of the model (d divides a)
Quot(a, d) == IF d > 0 THEN IF a >= 0 THEN a \div d ELSE -((-a) \div d)
              ELSE IF a >= 0 THEN -(a \div (-d)) ELSE (-a) \div (-d)

\* Matrix<4>::inverse: result[(j, i)] = cofactor(i, j) / det; "Panic" when the
\* matrix is not invertible
inverse(m) ==
    IF ~is_invertible(m) THEN "Panic"
    ELSE LET det == determinant4(m)
         IN [j \in Dim |-> [i \in Dim |-> Quot(cofactor4(m, i, j), det)]]

\* ------------------------------------------------------------------ floats.rs
\* A Float of the geometry is held as a whole number of EPSILONs (0.0001), so
\* 1.0 is ONE; the three values below stand for +inf, -inf (as -INFINITY) and NaN
EPSILON == 1
ONE == 10000
INFINITY == 1000000000
NAN == 2000000000

is_nan(a) == a = NAN
is_infinite(a) == a = INFINITY \/ a = -INFINITY

\* -a
Float_neg(a) == IF is_nan(a) THEN NAN ELSE -a

\* a + b: inf + -inf is NaN
Float_add(a, b) ==
    IF is_nan(a) \/ is_nan(b) THEN NAN
    ELSE IF is_infinite(a) THEN (IF b = -a THEN NAN ELSE a)
    ELSE IF is_infinite(b) THEN b
    ELSE a + b

\* a - b
Float_sub(a, b) == Float_add(a, Float_neg(b))

\* k * a for a plain number k (a matrix entry, a direction): 0 * inf is NaN
Float_scale(k, a) ==
    IF is_nan(a) THEN NAN
    ELSE IF is_infinite(a) THEN (IF k = 0 THEN NAN ELSE IF k > 0 THEN a ELSE -a)
    ELSE k * a

\* a * f32::INFINITY
Float_times_infinity(a) ==
    IF is_nan(a) \/ a = 0 THEN NAN ELSE IF a > 0 THEN INFINITY ELSE -INFINITY

\* a / d for a plain number d # 0 dividing a
Float_div(a, d) ==
    IF is_nan(a) THEN NAN
    ELSE IF is_infinite(a) THEN (IF d > 0 THEN a ELSE -a)
    ELSE Quot(a, d)

\* f32::min, f32::max: a NaN operand is ignored
Float_min(a, b) == IF is_nan(a) THEN b ELSE IF is_nan(b) THEN a ELSE IF a <= b THEN a ELSE b
Float_max(a, b) == IF is_nan(a) THEN b ELSE IF is_nan(b) THEN a ELSE IF a >= b THEN a ELSE b

\* a <= b, a > b: false when an operand is NaN
Float_le(a, b) == ~is_nan(a) /\ ~is_nan(b) /\ a <= b
Float_gt(a, b) == ~is_nan(a) /\ ~is_nan(b) /\ a > b

\* ------------------------------------------------------------------ tuples.rs
\* Tuple::point, in EPSILONs
Tuple_point(x, y, z) == <<x, y, z, ONE>>

\* one coordinate of Matrix<4> * Tuple
Matrix_mul_tuple_row(m, t, i) ==
    Float_add(Float_add(Float_add(Float_scale(m[i][1], t[1]), Float_scale(m[i][2], t[2])),
                        Float_scale(m[i][3], t[3])),
              Float_scale(m[i][4], t[4]))

\* Matrix<4> * Tuple: the first three coordinates (bounds read no w)
Matrix_mul_tuple(m, t) ==
    << Matrix_mul_tuple_row(m, t, 1), Matrix_mul_tuple_row(m, t, 2), Matrix_mul_tuple_row(m, t, 3) >>

\* ------------------------------------------------------------------ bounds.rs
\* Bounds::default
Bounds_default == [min |-> <<-ONE, -ONE, -ONE>>, max |-> <<ONE, ONE, ONE>>]

\* the bounds a group or a CSG starts its merge from
Bounds_empty == [min |-> <<INFINITY, INFINITY, INFINITY>>, max |-> <<-INFINITY, -INFINITY, -INFINITY>>]

\* the eight corners of Bounds::transform, in the order of the code
Corners(b) ==
    << <<b.min[1], b.min[2], b.min[3]>>, <<b.min[1], b.min[2], b.max[3]>>,
       <<b.min[1], b.max[2], b.min[3]>>, <<b.min[1], b.max[2], b.max[3]>>,
       <<b.max[1], b.min[2], b.min[3]>>, <<b.max[1], b.min[2], b.max[3]>>,
       <<b.max[1], b.max[2], b.min[3]>>, <<b.max[1], b.max[2], b.max[3]>> >>

\* c0.min(c1).min(c2) ... .min(c7) on one axis
MinOf(cs, axis) ==
    LET m[k \in 1..8] == IF k = 1 THEN cs[1][axis] ELSE Float_min(m[k - 1], cs[k][axis])
    IN m[8]

MaxOf(cs, axis) ==
    LET m[k \in 1..8] == IF k = 1 THEN cs[1][axis] ELSE Float_max(m[k - 1], cs[k][axis])
    IN m[8]

\* Bounds::transform
Bounds_transform(self, transform) ==
    LET c == Corners(self)
        p(k) == Matrix_mul_tuple(transform, Tuple_point(c[k][1], c[k][2], c[k][3]))
        cs == << p(1), p(2), p(3), p(4), p(5), p(6), p(7), p(8) >>
    IN [min |-> <<MinOf(cs, 1), MinOf(cs, 2), MinOf(cs, 3)>>,
        max |-> <<MaxOf(cs, 1), MaxOf(cs, 2), MaxOf(cs, 3)>>]

\* Bounds::merge
Bounds_merge(self, other) ==
    [min |-> << Float_min(self.min[1], other.min[1]), Float_min(self.min[2], other.min[2]),
                Float_min(self.min[3], other.min[3]) >>,
     max |-> << Float_max(self.max[1], other.max[1]), Float_max(self.max[2], other.max[2]),
                Float_max(self.max[3], other.max[3]) >>]

\* ------------------------------------------------------------------ transformations.rs
translation(x, y, z) ==
    << <<1, 0, 0, x>>, <<0, 1, 0, y>>, <<0, 0, 1, z>>, <<0, 0, 0, 1>> >>

scaling(x, y, z) ==
    << <<x, 0, 0, 0>>, <<0, y, 0, 0>>, <<0, 0, z, 0>>, <<0, 0, 0, 1>> >>

shearing(xy, xz, yx, yz, zx, zy) ==
    << <<1, xy, xz, 0>>, <<yx, 1, yz, 0>>, <<zx, zy, 1, 0>>, <<0, 0, 0, 1>> >>

\* The transforms scene construction draws from: integer matrices of determinant
\* +1 or -1, whose inverse the f32 arithmetic of the code computes exactly.  They
\* do not commute with each other and their inverses are not their transposes.
Transforms == { translation(0, 1, 2), shearing(1, 0, 0, 0, 0, 0) }

\* inverse(m) of each of them, evaluated once
InverseOfTransform == [m \in Transforms |-> inverse(m)]

\* ------------------------------------------------------------------ objects.rs
\* Object::new: identity transforms around a payload
Object_new(shape) ==
    [ transform         |-> Matrix_identity,
      transform_inverse |-> Matrix_identity,
      world_to_object   |-> Matrix_identity,
      object_to_world   |-> Matrix_identity,
      bounds            |-> Bounds_default,
      shape             |-> shape ]

Group_new == [kind |-> "group", children |-> << >>]

Csg_new(operation, left, right) ==
    [kind |-> "csg", operation |-> operation, children |-> <<left, right>>]

Object_new_sphere == Object_new([kind |-> "sphere"])

Object_new_group == Object_new(Group_new)

Object_new_plane == Object_new([kind |-> "plane"])

Object_new_csg(operation, left, right) == Object_new(Csg_new(operation, left, right))

\* Object::with_transform: the caches of the object itself are reset from the new
\* transform, the payload (and so the children) is kept
Object_with_transform(self, transform) ==
    LET transform_inverse == IF transform \in Transforms THEN InverseOfTransform[transform]
                             ELSE inverse(transform)
    IN [ self EXCEPT !.transform = transform,
                     !.transform_inverse = transform_inverse,
                     !.world_to_object = transform_inverse,
                     !.object_to_world = transpose(transform_inverse) ]

\* Group::add_child
Group_add_child(self, object) == [self EXCEPT !.children = Append(@, object)]

IsAggregate(o) == o.shape.kind \in {"group", "csg"}

RECURSIVE Object_prepare_transform(_)
RECURSIVE Shapes_prepare_transform(_, _, _)
RECURSIVE Group_prepare_transform(_, _, _)
RECURSIVE Csg_prepare_transform(_, _, _)

\* Group::prepare_transform, with the transform order of a plausible slip:
\* the parent's matrix applied on the wrong side
Group_prepare_transform_swapped(self, world_to_object, object_to_world) ==
    [ self EXCEPT !.children = [k \in 1..Len(self.children) |->
        LET c == self.children[k]
        IN Object_prepare_transform(
             [c EXCEPT !.world_to_object = mul(world_to_object, c.transform_inverse),
                       !.object_to_world = mul(transpose(c.transform_inverse), object_to_world)])] ]

\* a Group::prepare_transform that composes onto the child's cached matrices
Group_prepare_transform_accumulating(self, world_to_object, object_to_world) ==
    [ self EXCEPT !.children = [k \in 1..Len(self.children) |->
        LET c == self.children[k]
        IN Object_prepare_transform(
             [c EXCEPT !.world_to_object = mul(c.world_to_object, world_to_object),
                       !.object_to_world = mul(object_to_world, c.object_to_world)])] ]

\* Group::prepare_transform: each child's caches from the parent's, then the
\* child's own subtree
Group_prepare_transform(self, world_to_object, object_to_world) ==
    [ self EXCEPT !.children = [k \in 1..Len(self.children) |->
        LET c == self.children[k]
        IN Object_prepare_transform(
             [c EXCEPT !.world_to_object = mul(c.transform_inverse, world_to_object),
                       !.object_to_world = mul(object_to_world, transpose(c.transform_inverse))])] ]

\* Csg::prepare_transform: the same pass over the two operands
Csg_prepare_transform(self, world_to_object, object_to_world) ==
    [ self EXCEPT !.children = [k \in 1..Len(self.children) |->
        LET c == self.children[k]
        IN Object_prepare_transform(
             [c EXCEPT !.world_to_object = mul(c.transform_inverse, world_to_object),
                       !.object_to_world = mul(object_to_world, transpose(c.transform_inverse))])] ]

\* the payload's dispatch: aggregates pass the transforms down, primitives have
\* nothing to prepare
Shapes_prepare_transform(shape, world_to_object, object_to_world) ==
    CASE shape.kind = "group" -> Group_prepare_transform(shape, world_to_object, object_to_world)
      [] shape.kind = "csg"   -> Csg_prepare_transform(shape, world_to_object, object_to_world)
      [] OTHER                -> shape

\* Object::prepare_transform
Object_prepare_transform(self) ==
    [ self EXCEPT !.shape =
        Shapes_prepare_transform(self.shape, self.world_to_object, self.object_to_world) ]

RECURSIVE Object_prepare_bounds(_)
RECURSIVE Aggregate_prepare_bounds(_, _, _)

\* Bounds::transform of the bounds of a leaf, worked out once per transform
LeafBounds == {Bounds_default, Bounds_empty}
LeafTransforms == Transforms \cup {Matrix_identity}
TransformOfLeafBounds == [b \in LeafBounds, m \in LeafTransforms |-> Bounds_transform(b, m)]

\* c.bounds.transform(&c.transform)
Child_bounds_transform(bounds, transform) ==
    IF bounds \in LeafBounds /\ transform \in LeafTransforms
    THEN TransformOfLeafBounds[bounds, transform]
    ELSE Bounds_transform(bounds, transform)

\* the loop of Group::prepare_bounds and of Csg::prepare_bounds from child k on:
\* the child's own bounds are prepared, transformed by its transform and merged
Aggregate_prepare_bounds(self, bounds, k) ==
    IF k > Len(self.children) THEN [shape |-> self, bounds |-> bounds]
    ELSE LET c == Object_prepare_bounds(self.children[k])
             transformed_bounds == Child_bounds_transform(c.bounds, c.transform)
         IN Aggregate_prepare_bounds([self EXCEPT !.children[k] = c],
                                     Bounds_merge(bounds, transformed_bounds), k + 1)

\* Group::prepare_bounds: the shape and the bounds it leaves
Group_prepare_bounds(self, bounds) == Aggregate_prepare_bounds(self, Bounds_empty, 1)

\* Csg::prepare_bounds
Csg_prepare_bounds(self, bounds) == Aggregate_prepare_bounds(self, Bounds_empty, 1)

\* Plane::prepare_bounds
Plane_prepare_bounds(self, bounds) ==
    [shape |-> self,
     bounds |-> [min |-> <<-INFINITY, -EPSILON, -INFINITY>>, max |-> <<INFINITY, EPSILON, INFINITY>>]]

\* the payload's dispatch: a sphere has no prepare_bounds and keeps its bounds
Shapes_prepare_bounds(shape, bounds) ==
    CASE shape.kind = "group" -> Group_prepare_bounds(shape, bounds)
      [] shape.kind = "csg"   -> Csg_prepare_bounds(shape, bounds)
      [] shape.kind = "plane" -> Plane_prepare_bounds(shape, bounds)
      [] OTHER                -> [shape |-> shape, bounds |-> bounds]

\* Object::prepare_bounds
Object_prepare_bounds(self) ==
    LET r == Shapes_prepare_bounds(self.shape, self.bounds)
    IN [self EXCEPT !.shape = r.shape, !.bounds = r.bounds]

\* Object::prepare
Object_prepare(self) == Object_prepare_transform(Object_prepare_bounds(self))

RECURSIVE Height(_)
\* nesting depth of an object tree (a primitive is 1)
Height(o) ==
    IF ~IsAggregate(o) \/ o.shape.children = << >> THEN 1
    ELSE LET hs == { Height(o.shape.children[k]) : k \in 1..Len(o.shape.children) }
         IN 1 + CHOOSE h \in hs : \A g \in hs : g <= h

\* ------------------------------------------------------------------ scene construction
Operations == {"Difference", "Intersection", "Union"}

RECURSIVE Size(_)
\* number of objects in a tree
Size(o) ==
    IF ~IsAggregate(o) THEN 1
    ELSE LET cs == o.shape.children
             sum[k \in 0..Len(cs)] == IF k = 0 THEN 0 ELSE sum[k - 1] + Size(cs[k])
         IN 1 + sum[Len(cs)]

\* number of objects scene construction has created so far
Created ==
    LET sum[k \in 0..Len(objs)] == IF k = 0 THEN 0 ELSE sum[k - 1] + Size(objs[k])
    IN sum[Len(objs)]

RemoveAt(s, j) == [k \in 1..(Len(s) - 1) |-> IF k < j THEN s[k] ELSE s[k + 1]]

TreeInit ==
    /\ objs = << >>
    /\ fresh = << >>

TreeOff ==
    /\ objs = << >>
    /\ fresh = << >>

NewSphere ==
    /\ Created < MaxObjs
    /\ objs' = Append(objs, Object_new_sphere)
    /\ fresh' = Append(fresh, FALSE)
    /\ UNCHANGED notTree

NewGroup ==
    /\ Created < MaxObjs
    /\ objs' = Append(objs, Object_new_group)
    /\ fresh' = Append(fresh, FALSE)
    /\ UNCHANGED notTree

\* Object::new_csg(op, left, right): both operands move into the new object
NewCsg ==
    /\ Created < MaxObjs
    /\ UNCHANGED notTree
    /\ \E op \in Operations, i, j \in 1..Len(objs) :
        /\ i < j
        /\ \E lr \in {<<i, j>>, <<j, i>>} :
            LET c == Object_new_csg(op, objs[lr[1]], objs[lr[2]])
            IN /\ objs' = Append(RemoveAt(RemoveAt(objs, j), i), c)
               /\ fresh' = Append(RemoveAt(RemoveAt(fresh, j), i), FALSE)

\* o = o.with_transform(m), once per object (the builder call of scene construction)
WithTransform ==
    /\ UNCHANGED notTree
    /\ \E i \in 1..Len(objs), m \in Transforms :
        /\ objs[i].transform = Matrix_identity
        /\ objs' = [objs EXCEPT ![i] = Object_with_transform(@, m)]
        /\ fresh' = [fresh EXCEPT ![i] = FALSE]

\* g.as_mut_group().add_child(o): o moves into g
AddChild ==
    /\ UNCHANGED notTree
    /\ \E i, j \in 1..Len(objs) :
        /\ i # j
        /\ objs[i].shape.kind = "group"
        /\ LET g == [objs[i] EXCEPT !.shape = Group_add_child(@, objs[j])]
           IN /\ objs' = RemoveAt([objs EXCEPT ![i] = g], j)
              /\ fresh' = RemoveAt([fresh EXCEPT ![i] = FALSE], j)

\* o.prepare()
Prepare ==
    /\ UNCHANGED notTree
    /\ \E i \in 1..Len(objs) :
        /\ objs' = [objs EXCEPT ![i] = Object_prepare(@)]
        /\ fresh' = [fresh EXCEPT ![i] = TRUE]

TreeNext ==
    \/ NewSphere
    \/ NewGroup
    \/ NewCsg
    \/ WithTransform
    \/ AddChild
    \/ Prepare

\* ------------------------------------------------------------------ worlds.rs
\* World::prepare: prepare() on every object of the world
World_prepare(w) == [w EXCEPT !.objects = [k \in 1..Len(w.objects) |-> Object_prepare(w.objects[k])]]

\* the worlds a caller passes to render: objects as scene construction leaves them
\* (built with with_transform / add_child, not yet prepared)
CallerWorlds ==
    LET s == Object_with_transform(Object_new_sphere, translation(0, 1, 2))
        g == Object_with_transform(Object_new_group, shearing(1, 0, 0, 0, 0, 0))
    IN { [objects |-> <<s>>],
         [objects |-> << [g EXCEPT !.shape = Group_add_child(@, s)] >>] }

\* world.prepare() for each of them, worked out once
PreparedWorld == [w \in CallerWorlds |-> World_prepare(w)]

\* ------------------------------------------------------------------ canvas.rs
BLACK == 0

Canvas_new(width, height) ==
    [width |-> width, height |-> height, pixels |-> [k \in 1..(width * height) |-> BLACK]]

\* what the variables hold before render has made its canvas and its clone
NoCanvas == Canvas_new(0, 0)
NoWorld == [objects |-> << >>]

\* an index that leaves the row out
position_to_index_of_column(self, x, y) == x

\* index into pixels, from 0
position_to_index(self, x, y) == y * self.width + x

\* Canvas::write_pixel; pixels[index] of the Vec is pixels[index + 1] of the sequence
write_pixel(self, x, y, color) ==
    [self EXCEPT !.pixels[position_to_index(self, x, y) + 1] = color]

\* ------------------------------------------------------------------ cameras.rs
Workers == 0..(MaxThreads - 1)

\* rays_for_pixel: oversampling * oversampling calls of rays_for_coordinates,
\* each pushing blur_oversampling rays
rays_len(c) == c.oversampling * c.oversampling * c.blur_oversampling

\* let chunk_size = self.vsize / self.threads
chunk_size(c) == c.vsize \div c.threads

\* the band of worker i: chunk_size * i .. chunk_size * (i + 1)
band_start(c, i) == chunk_size(c) * i
band_end(c, i) == chunk_size(c) * (i + 1)

\* the mean of the traced colours of pixel (x, y): a value that is not BLACK and
\* differs from pixel to pixel
pixel_color(c, x, y) == 1 + y * c.hsize + x

\* a lock that does not exclude
mutex_free_always(holders) == TRUE

\* Mutex::lock returns only when no thread holds the mutex
mutex_free(holders) == holders = {}

\* a join that does not wait
thread_finished_nowait(i) == TRUE

\* JoinHandle::join returns only when the thread has finished
thread_finished(i) == wpc[i] \in {"done", "panicked"}

RenderInit ==
    /\ cam \in [ hsize : 1..MaxH, vsize : 1..MaxV, threads : 1..MaxThreads,
                 oversampling : 0..MaxOversampling, blur_oversampling : 0..MaxBlur ]
    /\ caller_world \in CallerWorlds
    /\ world = NoWorld
    /\ prepare_calls = 0
    /\ mpc = "start"
    /\ spawned = 0
    /\ joined = 0
    /\ wpc = [i \in Workers |-> "unborn"]
    /\ wx = [i \in Workers |-> 0]
    /\ wy = [i \in Workers |-> 0]
    /\ wcolor = [i \in Workers |-> BLACK]
    /\ image = NoCanvas
    /\ image_holders = {}
    /\ pb_holders = {}
    /\ pb = 0
    /\ image_refs = 0
    /\ result = NoCanvas
    /\ writes = << >>
    /\ nwrites = << >>
    /\ nlock = [i \in Workers |-> 0]

RenderOff ==
    /\ cam = None
    /\ caller_world = None
    /\ world = NoWorld
    /\ prepare_calls = 0
    /\ mpc = "off"
    /\ spawned = 0
    /\ joined = 0
    /\ wpc = [i \in Workers |-> "unborn"]
    /\ wx = [i \in Workers |-> 0]
    /\ wy = [i \in Workers |-> 0]
    /\ wcolor = [i \in Workers |-> BLACK]
    /\ image = NoCanvas
    /\ image_holders = {}
    /\ pb_holders = {}
    /\ pb = 0
    /\ image_refs = 0
    /\ result = NoCanvas
    /\ writes = << >>
    /\ nwrites = << >>
    /\ nlock = [i \in Workers |-> 0]

mainVars == <<mpc, spawned, joined, result>>
workerVars == <<wpc, wx, wy, wcolor>>
worldVars == <<caller_world, world, prepare_calls>>
canvasVars == <<image, writes, nwrites>>

\* a render that prepares the caller's world itself and shares that
Setup_in_place ==
    /\ mpc = "start"
    /\ caller_world' = PreparedWorld[caller_world]
    /\ world' = PreparedWorld[caller_world]
    /\ prepare_calls' = prepare_calls + 1
    /\ image' = Canvas_new(cam.hsize, cam.vsize)
    /\ image_refs' = 1
    /\ writes' = [k \in 1..(cam.hsize * cam.vsize) |-> {}]
    /\ nwrites' = [k \in 1..(cam.hsize * cam.vsize) |-> 0]
    /\ mpc' = "spawn"
    /\ UNCHANGED <<notRender, cam, spawned, joined, result, workerVars,
                   image_holders, pb_holders, pb, nlock>>

\* lines 92-98: clone the world, prepare the clone, wrap world, canvas and
\* progress bar for sharing
Setup ==
    /\ mpc = "start"
    /\ world' = PreparedWorld[caller_world]
    /\ prepare_calls' = prepare_calls + 1
    /\ image' = Canvas_new(cam.hsize, cam.vsize)
    /\ image_refs' = 1
    /\ writes' = [k \in 1..(cam.hsize * cam.vsize) |-> {}]
    /\ nwrites' = [k \in 1..(cam.hsize * cam.vsize) |-> 0]
    /\ mpc' = "spawn"
    /\ UNCHANGED <<notRender, cam, caller_world, spawned, joined, result, workerVars,
                   image_holders, pb_holders, pb, nlock>>

\* lines 99-119, one iteration: clone the Arcs and spawn worker i on its band
Spawn ==
    /\ mpc = "spawn"
    /\ spawned < cam.threads
    /\ image_refs' = image_refs + 1
    /\ wpc' = [wpc EXCEPT ![spawned] =
                 IF band_start(cam, spawned) < band_end(cam, spawned) THEN "trace" ELSE "exit"]
    /\ wx' = [wx EXCEPT ![spawned] = 0]
    /\ wy' = [wy EXCEPT ![spawned] = band_start(cam, spawned)]
    /\ spawned' = spawned + 1
    /\ UNCHANGED <<notRender, cam, worldVars, mpc, joined, result, wcolor, canvasVars,
                   image_holders, pb_holders, pb, nlock>>

\* the spawn loop is over
SpawnDone ==
    /\ mpc = "spawn"
    /\ spawned = cam.threads
    /\ mpc' = "join"
    /\ UNCHANGED <<notRender, cam, worldVars, spawned, joined, result, workerVars, canvasVars,
                   image_holders, pb_holders, pb, image_refs, nlock>>

\* a join whose result is dropped: handle.join().ok()
Join_result_dropped ==
    /\ mpc = "join"
    /\ joined < cam.threads
    /\ thread_finished(joined)
    /\ joined' = joined + 1
    /\ UNCHANGED <<notRender, cam, worldVars, mpc, image_refs, spawned, result, workerVars,
                   canvasVars, image_holders, pb_holders, pb, nlock>>

\* lines 120-122, one iteration: handle.join().unwrap() panics when the worker
\* panicked; the unwinding drops render's own Arc
Join ==
    /\ mpc = "join"
    /\ joined < cam.threads
    /\ thread_finished(joined)
    /\ IF wpc[joined] = "panicked"
         THEN /\ mpc' = "panicked"
              /\ image_refs' = image_refs - 1
              /\ joined' = joined
         ELSE /\ joined' = joined + 1
              /\ UNCHANGED <<mpc, image_refs>>
    /\ UNCHANGED <<notRender, cam, worldVars, spawned, result, workerVars, canvasVars,
                   image_holders, pb_holders, pb, nlock>>

\* line 123: pb.lock().unwrap().finish()
Finish ==
    /\ mpc = "join"
    /\ joined = cam.threads
    /\ mutex_free(pb_holders)
    /\ mpc' = "unwrap"
    /\ UNCHANGED <<notRender, cam, worldVars, spawned, joined, result, workerVars, canvasVars,
                   image_holders, pb_holders, pb, image_refs, nlock>>

\* lines 124-127: Arc::try_unwrap succeeds only for the last strong reference
Unwrap ==
    /\ mpc = "unwrap"
    /\ IF image_refs = 1
         THEN /\ result' = image
              /\ mpc' = "returned"
         ELSE /\ result' = result
              /\ mpc' = "unreachable"
    /\ UNCHANGED <<notRender, cam, worldVars, spawned, joined, workerVars, canvasVars,
                   image_holders, pb_holders, pb, image_refs, nlock>>

\* a worker that touches the shared world while it traces: it resets the first
\* object's transform
WorkerTrace_mutating(i) ==
    /\ wpc[i] = "trace"
    /\ world' = [world EXCEPT !.objects[1] = Object_with_transform(@, Matrix_identity)]
    /\ IF rays_len(cam) = 0
         THEN /\ wpc' = [wpc EXCEPT ![i] = "panicked"]
              /\ image_refs' = image_refs - 1
              /\ wcolor' = wcolor
         ELSE /\ wpc' = [wpc EXCEPT ![i] = "lock"]
              /\ wcolor' = [wcolor EXCEPT ![i] = pixel_color(cam, wx[i], wy[i])]
              /\ image_refs' = image_refs
    /\ UNCHANGED <<notRender, cam, caller_world, prepare_calls, mainVars, wx, wy, canvasVars,
                   image_holders, pb_holders, pb, nlock>>

\* lines 106-112: the rays of the pixel and the mean of their colours; reduce()
\* of no ray is None and unwrap() panics, which ends the thread and drops its Arcs
WorkerTrace(i) ==
    /\ wpc[i] = "trace"
    /\ IF rays_len(cam) = 0
         THEN /\ wpc' = [wpc EXCEPT ![i] = "panicked"]
              /\ image_refs' = image_refs - 1
              /\ wcolor' = wcolor
         ELSE /\ wpc' = [wpc EXCEPT ![i] = "lock"]
              /\ wcolor' = [wcolor EXCEPT ![i] = pixel_color(cam, wx[i], wy[i])]
              /\ image_refs' = image_refs
    /\ UNCHANGED <<notRender, cam, worldVars, mainVars, wx, wy, canvasVars,
                   image_holders, pb_holders, pb, nlock>>

\* line 113: image.lock()
WorkerLock(i) ==
    /\ wpc[i] = "lock"
    /\ mutex_free(image_holders)
    /\ image_holders' = image_holders \cup {i}
    /\ nlock' = [nlock EXCEPT ![i] = @ + 1]
    /\ wpc' = [wpc EXCEPT ![i] = "write"]
    /\ UNCHANGED <<notRender, cam, worldVars, mainVars, wx, wy, wcolor, canvasVars,
                   pb_holders, pb, image_refs>>

\* line 113: .write_pixel(x, y, color) through the guard
WorkerWrite(i) ==
    /\ wpc[i] = "write"
    /\ image' = write_pixel(image, wx[i], wy[i], wcolor[i])
    /\ LET k == position_to_index(image, wx[i], wy[i]) + 1
       IN /\ writes' = [writes EXCEPT ![k] = @ \cup {<<i, wx[i], wy[i]>>}]
          /\ nwrites' = [nwrites EXCEPT ![k] = @ + 1]
    /\ wpc' = [wpc EXCEPT ![i] = "unlock"]
    /\ UNCHANGED <<notRender, cam, worldVars, mainVars, wx, wy, wcolor,
                   image_holders, pb_holders, pb, image_refs, nlock>>

\* a guard that is never dropped
WorkerUnlock_leaking(i) ==
    /\ wpc[i] = "unlock"
    /\ IF wx[i] + 1 < cam.hsize
         THEN /\ wx' = [wx EXCEPT ![i] = @ + 1]
              /\ wpc' = [wpc EXCEPT ![i] = "trace"]
         ELSE /\ wx' = wx
              /\ wpc' = [wpc EXCEPT ![i] = "pb_lock"]
    /\ UNCHANGED <<notRender, cam, worldVars, mainVars, wy, wcolor, canvasVars,
                   image_holders, pb_holders, pb, image_refs, nlock>>

\* line 113, end of the statement: the guard is dropped; then the next x
WorkerUnlock(i) ==
    /\ wpc[i] = "unlock"
    /\ image_holders' = image_holders \ {i}
    /\ IF wx[i] + 1 < cam.hsize
         THEN /\ wx' = [wx EXCEPT ![i] = @ + 1]
              /\ wpc' = [wpc EXCEPT ![i] = "trace"]
         ELSE /\ wx' = wx
              /\ wpc' = [wpc EXCEPT ![i] = "pb_lock"]
    /\ UNCHANGED <<notRender, cam, worldVars, mainVars, wy, wcolor, canvasVars,
                   pb_holders, pb, image_refs, nlock>>

\* line 115: pb.lock()
WorkerPbLock(i) ==
    /\ wpc[i] = "pb_lock"
    /\ mutex_free(pb_holders)
    /\ pb_holders' = pb_holders \cup {i}
    /\ wpc' = [wpc EXCEPT ![i] = "pb_inc"]
    /\ UNCHANGED <<notRender, cam, worldVars, mainVars, wx, wy, wcolor, canvasVars,
                   image_holders, pb, image_refs, nlock>>

\* line 115: .inc(1), the guard dropped at the end of the statement; then the
\* next row of the band
WorkerPbInc(i) ==
    /\ wpc[i] = "pb_inc"
    /\ pb' = pb + 1
    /\ pb_holders' = pb_holders \ {i}
    /\ IF wy[i] + 1 < band_end(cam, i)
         THEN /\ wy' = [wy EXCEPT ![i] = @ + 1]
              /\ wx' = [wx EXCEPT ![i] = 0]
              /\ wpc' = [wpc EXCEPT ![i] = "trace"]
         ELSE /\ UNCHANGED <<wx, wy>>
              /\ wpc' = [wpc EXCEPT ![i] = "exit"]
    /\ UNCHANGED <<notRender, cam, worldVars, mainVars, wcolor, canvasVars,
                   image_holders, image_refs, nlock>>

\* line 117: the closure ends, its captured Arcs are dropped, the thread finishes
WorkerExit(i) ==
    /\ wpc[i] = "exit"
    /\ image_refs' = image_refs - 1
    /\ wpc' = [wpc EXCEPT ![i] = "done"]
    /\ UNCHANGED <<notRender, cam, worldVars, mainVars, wx, wy, wcolor, canvasVars,
                   image_holders, pb_holders, pb, nlock>>

RenderNext ==
    \/ Setup
    \/ Spawn
    \/ SpawnDone
    \/ Join
    \/ Finish
    \/ Unwrap
    \/ \E i \in Workers : WorkerTrace(i)
    \/ \E i \in Workers : WorkerLock(i)
    \/ \E i \in Workers : WorkerWrite(i)
    \/ \E i \in Workers : WorkerUnlock(i)
    \/ \E i \in Workers : WorkerPbLock(i)
    \/ \E i \in Workers : WorkerPbInc(i)
    \/ \E i \in Workers : WorkerExit(i)

\* ------------------------------------------------------------------ worlds.rs: color_at
\* depth is a u32, held by its representative in -2^31 .. 2^31 - 1: the value of
\* 0 - 1 in a build without overflow checks, 4294967295, is held as -1
\* the materials a ray can meet, by the two fields the recursion reads
Materials == [reflective : {0, 1}, transparency : {0, 1}]
NoMaterial == [reflective |-> 0, transparency |-> 0]

\* the deepest stack explored: one call more than the code ever nests
NestCap == MaxDepth + 2

\* one activation of color_at with its shade_hit, at position pc
Frame(depth) == [depth |-> depth, pc |-> "intersect", material |-> NoMaterial]

Top == cstack[Len(cstack)]
Callers == SubSeq(cstack, 1, Len(cstack) - 1)
At(pc) == cstatus = "running" /\ cstack # << >> /\ Top.pc = pc

\* a reflected_color that recurses whatever the depth
reflected_color_is_black_ignoring_depth(depth, material) == material.reflective = 0

\* reflected_color: the early return of BLACK
reflected_color_is_black(depth, material) == depth = 0 \/ material.reflective = 0

\* refracted_color: the early return of BLACK
refracted_color_is_black(depth, material) == depth = 0 \/ material.transparency = 0

ColorInit ==
    /\ cdepth \in 0..MaxDepth
    /\ cstack = << >>
    /\ cunderflow = FALSE
    /\ cstatus = "idle"

ColorOff ==
    /\ cdepth = 0
    /\ cstack = << >>
    /\ cunderflow = FALSE
    /\ cstatus = "off"

\* world.color_at(&ray, depth), called from outside
ColorAt ==
    /\ cstatus = "idle"
    /\ cstack' = << Frame(cdepth) >>
    /\ cstatus' = "running"
    /\ UNCHANGED <<cdepth, cunderflow, notColor>>

\* color_at: intersect and hit; no hit returns BLACK, a hit goes on to shade_hit
\* (is_shadowed and lighting make no call of color_at)
ColorAtIntersect ==
    /\ At("intersect")
    /\ \/ /\ cstack' = Callers
          /\ cstatus' = IF Callers = << >> THEN "returned" ELSE cstatus
       \/ /\ \E m \in Materials :
               cstack' = Callers \o << [Top EXCEPT !.pc = "reflected", !.material = m] >>
          /\ UNCHANGED cstatus
    /\ UNCHANGED <<cdepth, cunderflow, notColor>>

\* the call self.color_at(&ray, depth - 1) made by the top frame, which resumes at pc
Recurse(pc) ==
    /\ Len(cstack) < NestCap
    /\ cstack' = Callers \o << [Top EXCEPT !.pc = pc], Frame(Top.depth - 1) >>
    /\ cunderflow' = (cunderflow \/ Top.depth = 0)

\* shade_hit: reflected_color
ReflectedColor ==
    /\ At("reflected")
    /\ IF reflected_color_is_black(Top.depth, Top.material)
         THEN /\ cstack' = Callers \o << [Top EXCEPT !.pc = "refracted"] >>
              /\ UNCHANGED cunderflow
         ELSE Recurse("refracted")
    /\ UNCHANGED <<cdepth, cstatus, notColor>>

\* shade_hit: refracted_color; total stands for sin2_t > 1.0
RefractedColor ==
    /\ At("refracted")
    /\ IF refracted_color_is_black(Top.depth, Top.material)
         THEN /\ cstack' = Callers \o << [Top EXCEPT !.pc = "return"] >>
              /\ UNCHANGED cunderflow
         ELSE \E total \in BOOLEAN :
                IF total
                  THEN /\ cstack' = Callers \o << [Top EXCEPT !.pc = "return"] >>
                       /\ UNCHANGED cunderflow
                  ELSE Recurse("return")
    /\ UNCHANGED <<cdepth, cstatus, notColor>>

\* shade_hit returns surface + reflected + refracted, color_at returns it
ColorAtReturn ==
    /\ At("return")
    /\ cstack' = Callers
    /\ cstatus' = IF Callers = << >> THEN "returned" ELSE cstatus
    /\ UNCHANGED <<cdepth, cunderflow, notColor>>

ColorNext ==
    \/ ColorAt
    \/ ColorAtIntersect
    \/ ReflectedColor
    \/ RefractedColor
    \/ ColorAtReturn

\* ------------------------------------------------------------------ intersections.rs
\* Refractive indices are held in tenths (1.0 is 10), distances t in quarters.
VACUUM == 10

\* the objects a ray meets: three glass spheres, told apart by identity (ptr::eq)
GlassA == [id |-> "a", refractive_index |-> 15]
GlassB == [id |-> "b", refractive_index |-> 20]
GlassC == [id |-> "c", refractive_index |-> 25]
IsectObjects == {GlassA, GlassB, GlassC}

\* behind the ray, at its origin, in front of it
TValues == {-1, 0, MaxT}

\* Intersection::new
Intersection_new(t, object) == [t |-> t, object |-> object]

\* the list of the test finding_n1_and_n2_at_various_intersections:
\* t = 2, 2.75, 3.25, 4.75, 5.25, 6 on spheres a, b, c, b, c, a
NestedSpheres ==
    << Intersection_new(8, GlassA), Intersection_new(11, GlassB), Intersection_new(13, GlassC),
       Intersection_new(19, GlassB), Intersection_new(21, GlassC), Intersection_new(24, GlassA) >>

RECURSIVE hit_from(_, _, _)
\* the filter(t >= 0).min_by(total_cmp) fold from position k on, best being the
\* index kept so far (0: none); min_by replaces it only by a strictly smaller t
hit_from(l, k, best) ==
    IF k > Len(l) THEN best
    ELSE IF l[k].t >= 0 /\ (best = 0 \/ l[k].t < l[best].t)
         THEN hit_from(l, k + 1, k)
         ELSE hit_from(l, k + 1, best)

\* a hit that leaves out t = 0
hit_positive_only(l) ==
    LET strip == [k \in 1..Len(l) |-> IF l[k].t = 0 THEN [l[k] EXCEPT !.t = -1] ELSE l[k]]
    IN hit_from(strip, 1, 0)

\* hit: the index in xs of the intersection returned, 0 for None
hit(l) == hit_from(l, 1, 0)

\* containers.iter().position(|c| ptr::eq(*c, x.object)): first index, 0 for None
position(containers, object) ==
    LET found == {i \in 1..Len(containers) : containers[i].id = object.id}
    IN IF found = {} THEN 0 ELSE CHOOSE i \in found : \A j \in found : i <= j

Vec_remove(v, i) == [k \in 1..(Len(v) - 1) |-> IF k < i THEN v[k] ELSE v[k + 1]]

\* a replay that pushes every object it meets
containers_push_only(containers, object) == Append(containers, object)

\* one entry or exit: the object leaves the containers if it is in them, and
\* is pushed on them otherwise
containers_toggle(containers, object) ==
    LET i == position(containers, object)
    IN IF i # 0 THEN Vec_remove(containers, i) ELSE Append(containers, object)

RECURSIVE find_refraction_indices_from(_, _, _, _, _, _)
\* the loop of find_refraction_indices from position k on
find_refraction_indices_from(self, l, k, containers, n1, n2) ==
    IF k > Len(l) THEN <<n1, n2>>
    ELSE LET x == l[k]
             n1x == IF x.t = self.t /\ containers # << >>
                      THEN containers[Len(containers)].refractive_index ELSE n1
             after == containers_toggle(containers, x.object)
         IN IF x.t = self.t
              THEN <<n1x, IF after # << >> THEN after[Len(after)].refractive_index ELSE n2>>
              ELSE find_refraction_indices_from(self, l, k + 1, after, n1x, n2)

\* Intersection::find_refraction_indices: (n1, n2)
find_refraction_indices(self, l) ==
    find_refraction_indices_from(self, l, 1, << >>, VACUUM, VACUUM)

\* the n1, n2 of Intersection::prepare_computations
prepare_computations(self, l) == find_refraction_indices(self, l)

\* ------------------------------------------------------------------ shapes/csg.rs
\* a Difference that keeps a right hit outside the left operand
intersection_allowed_slip(op, lhit, inl, inr) ==
    CASE op = "Difference"   -> (lhit /\ ~inr) \/ (~lhit /\ ~inl)
      [] op = "Intersection" -> (lhit /\ inr) \/ (~lhit /\ inl)
      [] op = "Union"        -> (lhit /\ ~inr) \/ (~lhit /\ ~inl)

intersection_allowed(op, lhit, inl, inr) ==
    CASE op = "Difference"   -> (lhit /\ ~inr) \/ (~lhit /\ inl)
      [] op = "Intersection" -> (lhit /\ inr) \/ (~lhit /\ inl)
      [] op = "Union"        -> (lhit /\ ~inr) \/ (~lhit /\ ~inl)

\* ------------------------------------------------------------------ calls on intersection lists
NoCall == [fn |-> "none"]

IsectInit ==
    /\ xs \in {<< >>, NestedSpheres}
    /\ last = NoCall

IsectOff ==
    /\ xs = << >>
    /\ last = NoCall

\* xs.push(Intersection::new(t, &object))
PushIntersection ==
    /\ Len(xs) < MaxLen
    /\ \E t \in TValues, o \in IsectObjects : xs' = Append(xs, Intersection_new(t, o))
    /\ last' = NoCall
    /\ UNCHANGED notIsect

\* hit(&xs)
CallHit ==
    /\ last' = [fn |-> "hit", ret |-> hit(xs)]
    /\ UNCHANGED <<xs, notIsect>>

\* xs[k].prepare_computations(&r, &xs)
CallPrepareComputations ==
    /\ \E k \in 1..Len(xs) :
         last' = [fn |-> "prepare_computations", k |-> k, ret |-> prepare_computations(xs[k], xs)]
    /\ UNCHANGED <<xs, notIsect>>

\* intersection_allowed(op, lhit, inl, inr)
CallIntersectionAllowed ==
    /\ \E op \in Operations, lhit, inl, inr \in BOOLEAN :
         last' = [fn |-> "intersection_allowed", op |-> op, lhit |-> lhit, inl |-> inl,
                  inr |-> inr, ret |-> intersection_allowed(op, lhit, inl, inr)]
    /\ UNCHANGED <<xs, notIsect>>

IsectNext ==
    \/ PushIntersection
    \/ CallHit
    \/ CallPrepareComputations
    \/ CallIntersectionAllowed

\* ------------------------------------------------------------------ rays
\* Ray::new
Ray_new(origin, direction) == [origin |-> origin, direction |-> direction]

\* m * v for a plain point (w = 1) or vector (w = 0)
Apply(m, v, w) == [i \in 1..3 |-> m[i][1] * v[1] + m[i][2] * v[2] + m[i][3] * v[3] + m[i][4] * w]

\* Ray::transform
Ray_transform(ray, m) == Ray_new(Apply(m, ray.origin, 1), Apply(m, ray.direction, 0))

dot(a, b) == a[1] * b[1] + a[2] * b[2] + a[3] * b[3]

\* ------------------------------------------------------------------ bounds.rs: the slab test
\* check_axis; origin and direction are plain numbers, min and max are Floats
check_axis(origin, direction, min, max) ==
    LET tmin_numerator == Float_sub(Float_sub(min, origin * ONE), EPSILON)
        tmax_numerator == Float_add(Float_sub(max, origin * ONE), EPSILON)
        tmin == IF direction # 0 THEN Float_div(tmin_numerator, direction)
                ELSE Float_times_infinity(tmin_numerator)
        tmax == IF direction # 0 THEN Float_div(tmax_numerator, direction)
                ELSE Float_times_infinity(tmax_numerator)
    IN IF Float_gt(tmin, tmax) THEN <<tmax, tmin>> ELSE <<tmin, tmax>>

\* Bounds::intersect
Bounds_intersect(self, ray) ==
    LET x == check_axis(ray.origin[1], ray.direction[1], self.min[1], self.max[1])
        y == check_axis(ray.origin[2], ray.direction[2], self.min[2], self.max[2])
        z == check_axis(ray.origin[3], ray.direction[3], self.min[3], self.max[3])
        tmin == Float_max(Float_max(x[1], y[1]), z[1])
        tmax == Float_min(Float_min(x[2], y[2]), z[2])
    IN Float_le(tmin, tmax)

\* ------------------------------------------------------------------ shapes/spheres.rs, shapes/planes.rs
\* f32::sqrt on the perfect squares the rays of the model produce
sqrt(d) == CHOOSE r \in 0..d : r * r = d

\* a sphere that lists the far root first
Sphere_local_intersect_far_first(ray, object) ==
    LET a == dot(ray.direction, ray.direction)
        b == 2 * dot(ray.direction, ray.origin)
        c == dot(ray.origin, ray.origin) - 1
        discriminant == b * b - 4 * a * c
    IN IF discriminant < 0 THEN << >>
       ELSE << [t |-> Quot(-b + sqrt(discriminant), 2 * a), object |-> object],
               [t |-> Quot(-b - sqrt(discriminant), 2 * a), object |-> object] >>

\* Sphere::local_intersect: the list of (t, object)
Sphere_local_intersect(ray, object) ==
    LET sphere_to_ray == ray.origin
        a == dot(ray.direction, ray.direction)
        b == 2 * dot(ray.direction, sphere_to_ray)
        c == dot(sphere_to_ray, sphere_to_ray) - 1
        discriminant == b * b - 4 * a * c
    IN IF discriminant < 0 THEN << >>
       ELSE << [t |-> Quot(-b - sqrt(discriminant), 2 * a), object |-> object],
               [t |-> Quot(-b + sqrt(discriminant), 2 * a), object |-> object] >>

\* Plane::local_intersect
Plane_local_intersect(ray, object) ==
    IF ray.direction[2] = 0 THEN << >>
    ELSE << [t |-> Quot(-ray.origin[2], ray.direction[2]), object |-> object] >>

\* ------------------------------------------------------------------ shapes/groups.rs: local_intersect
\* a list left in the order the children were asked
sort_by_t_skipped(l) == l

RECURSIVE sort_by_t(_)
\* xs.sort_by(|a, b| a.t.partial_cmp(&b.t).unwrap()): a stable sort
sort_by_t(l) ==
    IF Len(l) <= 1 THEN l
    ELSE LET head == sort_by_t(SubSeq(l, 1, Len(l) - 1))
             x == l[Len(l)]
             before == {k \in 1..Len(head) : head[k].t <= x.t}
             n == Cardinality(before)
         IN SubSeq(head, 1, n) \o <<x>> \o SubSeq(head, n + 1, Len(head))

RECURSIVE Object_intersect(_, _, _)
RECURSIVE children_intersect(_, _, _, _)
RECURSIVE Csg_local_intersect(_, _, _)

\* self.children.iter().flat_map(|c| c.intersect(ray)) from child k on
children_intersect(self, path, ray, k) ==
    IF k > Len(self.children) THEN << >>
    ELSE Object_intersect(self.children[k], Append(path, k), ray)
         \o children_intersect(self, path, ray, k + 1)

\* Group::local_intersect without its first statement
Group_intersect_children(self, path, ray) == sort_by_t(children_intersect(self, path, ray, 1))

\* a group that reports its own bounding box as a hit
Group_local_intersect_as_box(self, path, ray, object) ==
    IF ~Bounds_intersect(object.bounds, ray) THEN << >>
    ELSE << [t |-> 0, object |-> path] >> \o Group_intersect_children(self, path, ray)

\* Group::local_intersect; an object is named by its path from the root
Group_local_intersect(self, path, ray, object) ==
    IF ~Bounds_intersect(object.bounds, ray) THEN << >>
    ELSE Group_intersect_children(self, path, ray)

\* the payload's dispatch
Shapes_local_intersect(shape, path, ray, object) ==
    CASE shape.kind = "group"  -> Group_local_intersect(shape, path, ray, object)
      [] shape.kind = "sphere" -> Sphere_local_intersect(ray, path)
      [] shape.kind = "plane"  -> Plane_local_intersect(ray, path)
      [] shape.kind = "csg"    -> Csg_local_intersect(shape, path, ray)

\* Object::intersect
Object_intersect(self, path, ray) ==
    LET local_ray == Ray_transform(ray, self.transform_inverse)
    IN Shapes_local_intersect(self.shape, path, local_ray, self)

\* ------------------------------------------------------------------ rays against a scene
\* a translation and a shear that keep the rays below parallel to an axis
SceneTransforms == { translation(MaxCoord, 0, 0), shearing(0, 1, 0, 0, 0, 0) }

InverseOfSceneTransform == [m \in SceneTransforms |-> inverse(m)]

\* o.with_transform(m) for a transform of the scene
Scene_with_transform(o, m) ==
    [ o EXCEPT !.transform = m,
               !.transform_inverse = InverseOfSceneTransform[m],
               !.world_to_object = InverseOfSceneTransform[m],
               !.object_to_world = transpose(InverseOfSceneTransform[m]) ]

\* the objects added to the root group
SceneChildren ==
    { Object_new_sphere, Object_new_plane, Object_new_group }
    \cup { Scene_with_transform(Object_new_sphere, m) : m \in SceneTransforms }

Coords == {-MaxCoord, 0, 1}

\* rays along the x axis and along the y axis, both ways, from outside the unit cube
Rays ==
    { Ray_new(<<-MaxCoord, y, 0>>, d) : y \in Coords, d \in {<<1, 0, 0>>, <<-1, 0, 0>>} }
    \cup { Ray_new(<<x, MaxCoord, 0>>, d) : x \in Coords, d \in {<<0, 1, 0>>, <<0, -1, 0>>} }

\* the groups of up to MaxChildren children, with or without a transform of their own
Scenes ==
    LET lists == UNION { [1..n -> SceneChildren] : n \in 0..MaxChildren }
        roots == {Object_new_group} \cup { Scene_with_transform(Object_new_group, m) : m \in SceneTransforms }
    IN { [g EXCEPT !.shape.children = cs] : g \in roots, cs \in lists }

NoIntersect == [fn |-> "none"]

GeomInit ==
    /\ scene \in Scenes
    /\ prepared = FALSE
    /\ the_ray \in Rays
    /\ got = NoIntersect

GeomOff ==
    /\ scene = None
    /\ prepared = FALSE
    /\ the_ray = None
    /\ got = NoIntersect

\* scene.prepare()
ScenePrepare ==
    /\ scene' = Object_prepare(scene)
    /\ prepared' = TRUE
    /\ got' = NoIntersect
    /\ UNCHANGED <<the_ray, notGeom>>

\* scene.intersect(&ray)
SceneIntersect ==
    /\ got' = [fn |-> "intersect", ret |-> Object_intersect(scene, << >>, the_ray)]
    /\ UNCHANGED <<scene, prepared, the_ray, notGeom>>

GeomNext ==
    \/ ScenePrepare
    \/ SceneIntersect

\* ------------------------------------------------------------------ rays against the unit sphere
\* the ray of the test a_ray_intersects_a_sphere_at_a_tangent
TangentRay == Ray_new(<<0, 1, -5>>, <<0, 0, 1>>)

Axes == { <<1, 0, 0>>, <<-1, 0, 0>>, <<0, 1, 0>>, <<0, -1, 0>>, <<0, 0, 1>>, <<0, 0, -1>> }

\* rays along the axes from the points of a grid, the ray of the test among them
SphereRays ==
    { Ray_new(<<x, y, z>>, d) : x \in -1..MaxCoord, y \in -1..MaxCoord, z \in {-5, 0}, d \in Axes }

SphereInit ==
    /\ scene = Object_new_sphere
    /\ prepared = FALSE
    /\ the_ray \in SphereRays
    /\ got = NoIntersect

\* s.local_intersect(&ray)
SphereLocalIntersect ==
    /\ scene.shape.kind = "sphere"
    /\ got' = [fn |-> "local_intersect", ret |-> Sphere_local_intersect(the_ray, << >>)]
    /\ UNCHANGED <<scene, prepared, the_ray, notGeom>>

\* scene.prepare() on the sphere
SpherePrepare ==
    /\ scene.shape.kind = "sphere"
    /\ scene' = Object_prepare(scene)
    /\ prepared' = TRUE
    /\ UNCHANGED <<the_ray, got, notGeom>>

SphereNext ==
    \/ SphereLocalIntersect
    \/ SpherePrepare

\* ------------------------------------------------------------------ objects.rs: typed views
Cone_new == [kind |-> "cone", minimum |-> -INFINITY, maximum |-> INFINITY, closed |-> FALSE]
Cylinder_new == [kind |-> "cylinder", closed |-> FALSE, minimum |-> -INFINITY, maximum |-> INFINITY]
Cube_new == [kind |-> "cube"]

Object_new_cone == Object_new(Cone_new)
Object_new_cube == Object_new(Cube_new)
Object_new_cylinder == Object_new(Cylinder_new)

\* the outcome of a typed view: the payload, or the panic of the other match arm
Payload(shape) == [panic |-> FALSE, payload |-> shape]
Panic == [panic |-> TRUE, payload |-> [kind |-> "none"]]

\* an as_mut_cylinder pasted from as_mut_cone with its pattern left as it was
Object_as_mut_cylinder_pasted(self) == IF self.shape.kind = "cone" THEN Payload(self.shape) ELSE Panic

Object_as_cone(self) == IF self.shape.kind = "cone" THEN Payload(self.shape) ELSE Panic
Object_as_mut_cone(self) == IF self.shape.kind = "cone" THEN Payload(self.shape) ELSE Panic
Object_as_cube(self) == IF self.shape.kind = "cube" THEN Payload(self.shape) ELSE Panic
Object_as_cylinder(self) == IF self.shape.kind = "cylinder" THEN Payload(self.shape) ELSE Panic
Object_as_mut_cylinder(self) == IF self.shape.kind = "cylinder" THEN Payload(self.shape) ELSE Panic
Object_as_group(self) == IF self.shape.kind = "group" THEN Payload(self.shape) ELSE Panic
Object_as_mut_group(self) == IF self.shape.kind = "group" THEN Payload(self.shape) ELSE Panic
Object_as_plane(self) == IF self.shape.kind = "plane" THEN Payload(self.shape) ELSE Panic
Object_as_sphere(self) == IF self.shape.kind = "sphere" THEN Payload(self.shape) ELSE Panic

\* the typed views of Object, by name
Views ==
    { "as_cone", "as_mut_cone", "as_cube", "as_cylinder", "as_mut_cylinder",
      "as_group", "as_mut_group", "as_plane", "as_sphere" }

\* self.<view>()
View(view, self) ==
    CASE view = "as_cone"         -> Object_as_cone(self)
      [] view = "as_mut_cone"     -> Object_as_mut_cone(self)
      [] view = "as_cube"         -> Object_as_cube(self)
      [] view = "as_cylinder"     -> Object_as_cylinder(self)
      [] view = "as_mut_cylinder" -> Object_as_mut_cylinder(self)
      [] view = "as_group"        -> Object_as_group(self)
      [] view = "as_mut_group"    -> Object_as_mut_group(self)
      [] view = "as_plane"        -> Object_as_plane(self)
      [] view = "as_sphere"       -> Object_as_sphere(self)

\* one object of each payload kind, as constructed and with a transform
ViewedObjects ==
    LET made == { Object_new_cone, Object_new_cube, Object_new_cylinder, Object_new_group,
                  Object_new_plane, Object_new_sphere,
                  Object_new_csg("Union", Object_new_sphere, Object_new_cube) }
    IN made \cup { Scene_with_transform(o, m) : o \in made, m \in SceneTransforms }

ViewInit ==
    /\ scene \in ViewedObjects
    /\ prepared = FALSE
    /\ the_ray = Ray_new(<<0, 0, 0>>, <<1, 0, 0>>)
    /\ got = NoIntersect

\* scene.as_K() or scene.as_mut_K()
CallView ==
    /\ \E view \in Views : got' = [fn |-> "view", view |-> view, ret |-> View(view, scene)]
    /\ UNCHANGED <<scene, prepared, the_ray, notGeom>>

\* the transforms given to with_transform: those of the scenes and one that
\* flattens the x axis
GivenTransforms == SceneTransforms \cup { scaling(0, 1, 1) }

\* scene = scene.with_transform(m): Matrix::inverse panics on a matrix that is
\* not invertible, and the object moved into the call is dropped
CallWithTransform ==
    /\ \E m \in GivenTransforms :
         IF is_invertible(m)
           THEN /\ scene' = Object_with_transform(scene, m)
                /\ got' = [fn |-> "with_transform", transform |-> m, panic |-> FALSE]
           ELSE /\ scene' = scene
                /\ got' = [fn |-> "with_transform", transform |-> m, panic |-> TRUE]
    /\ UNCHANGED <<prepared, the_ray, notGeom>>

ViewNext ==
    \/ CallView
    \/ CallWithTransform

\* ------------------------------------------------------------------ cameras.rs: the rays of a pixel
\* rand(aperture) lies within the aperture: a ray carries, in place of the drawn
\* lens offset, the spread it was drawn from (0: the lens centre itself)
spread_of(c) == IF c.blur_oversampling > 1 THEN c.aperture ELSE 0

\* rays_for_coordinates for sub-sample (dx, dy): blur_oversampling rays
rays_for_coordinates(c, dx, dy) ==
    [k \in 1..c.blur_oversampling |-> [dx |-> dx, dy |-> dy, spread |-> spread_of(c)]]

RECURSIVE rays_from(_, _)
\* the two loops of rays_for_pixel from sub-sample number n on (dx outer, dy inner)
rays_from(c, n) ==
    IF n >= c.oversampling * c.oversampling THEN << >>
    ELSE rays_for_coordinates(c, n \div c.oversampling, n % c.oversampling) \o rays_from(c, n + 1)

\* Camera::rays_for_pixel
rays_for_pixel(c) == rays_from(c, 0)

NoRays == << [dx |-> -1, dy |-> -1, spread |-> 0] >>

LensInit ==
    /\ lens \in [ oversampling : 0..MaxSamples, blur_oversampling : 0..MaxSamples,
                  aperture : {0, 1}, x : 0..MaxH, y : 0..MaxV ]
    /\ rays = NoRays

LensOff ==
    /\ lens = None
    /\ rays = NoRays

\* camera.rays_for_pixel(x, y)
CallRaysForPixel ==
    /\ rays' = rays_for_pixel(lens)
    /\ UNCHANGED <<lens, notLens>>

LensNext ==
    \/ CallRaysForPixel

\* ------------------------------------------------------------------ lights/point_lights.rs: shadows
\* Option<Float>: None, Some(t)
NoHit == << >>
Some(t) == << t >>

Float_lt(a, b) == ~is_nan(a) /\ ~is_nan(b) /\ a < b

Tuple_sub(a, b) == <<a[1] - b[1], a[2] - b[2], a[3] - b[3]>>

IsSquare(d) == \E r \in 0..d : r * r = d

\* Tuple::magnitude, for the vectors whose length is a whole number
Tuple_magnitude(v) == sqrt(dot(v, v))

\* an is_shadowed that takes a hit on the light itself for a shadow
is_shadowed_at_the_light(light_position, point, hit_fn) ==
    LET v == Tuple_sub(light_position, point)
        distance == Tuple_magnitude(v)
    IN hit_fn # NoHit /\ Float_le(hit_fn[1], distance)

\* is_shadowed; hit_fn is what the closure returns for the ray from point
\* along normalize(light_position - point)
is_shadowed(light_position, point, hit_fn) ==
    LET v == Tuple_sub(light_position, point)
        distance == Tuple_magnitude(v)
    IN hit_fn # NoHit /\ Float_lt(hit_fn[1], distance)

\* points of the plane z = 0
ShadowPoints == { <<x, y, 0>> : x \in {-MaxCoord, 0, MaxCoord}, y \in {0, MaxCoord + 1} }

\* what a hit_fn can return: nothing, a distance, NaN
HitFns == {NoHit, Some(NAN), Some(INFINITY)} \cup { Some(t) : t \in 0..(2 * MaxCoord + 1) }

NoShadowCall == [fn |-> "none"]

ShadowInit ==
    /\ probe \in { pr \in [light_position : ShadowPoints, point : ShadowPoints, hit_fn : HitFns] :
                     IsSquare(dot(Tuple_sub(pr.light_position, pr.point), Tuple_sub(pr.light_position, pr.point))) }
    /\ shadow = NoShadowCall

ShadowOff ==
    /\ probe = None
    /\ shadow = NoShadowCall

\* is_shadowed(light_position, point, &hit_fn)
CallIsShadowed ==
    /\ shadow = NoShadowCall
    /\ shadow' = [fn |-> "is_shadowed", ret |-> is_shadowed(probe.light_position, probe.point, probe.hit_fn)]
    /\ UNCHANGED <<probe, notShadow>>

ShadowNext ==
    \/ CallIsShadowed

\* ------------------------------------------------------------------ shapes/csg.rs: filter_intersections
RECURSIVE Object_includes(_, _, _)

\* Group::includes
Group_includes(self, path, object) ==
    \E k \in 1..Len(self.children) : Object_includes(self.children[k], Append(path, k), object)

\* a Csg::includes that asks the left child only
Csg_includes_left_only(self, path, object) ==
    Object_includes(self.children[1], Append(path, 1), object)

\* Csg::includes
Csg_includes(self, path, object) ==
    \E k \in 1..Len(self.children) : Object_includes(self.children[k], Append(path, k), object)

\* Object::includes: an aggregate asks its children, anything else is the
\* object asked for or is not (objects are named by their path)
Object_includes(self, path, object) ==
    CASE self.shape.kind = "group" -> Group_includes(self.shape, path, object)
      [] self.shape.kind = "csg"   -> Csg_includes(self.shape, path, object)
      [] OTHER                     -> path = object

RECURSIVE filter_from(_, _, _, _, _, _, _)
\* the loop of filter_intersections from hit k on; the flags it ends with are
\* returned beside the result. path names the CSG, so its left child is path.1
filter_from(self, path, l, k, inl, inr, kept) ==
    IF k > Len(l) THEN [fn |-> "filter_intersections", result |-> kept, inl |-> inl, inr |-> inr]
    ELSE LET lhit == Object_includes(self.children[1], Append(path, 1), l[k].object)
         IN filter_from(self, path, l, k + 1,
                IF lhit THEN ~inl ELSE inl,
                IF lhit THEN inr ELSE ~inr,
                IF intersection_allowed(self.operation, lhit, inl, inr)
                THEN Append(kept, l[k]) ELSE kept)

\* a filter whose ray starts inside the left child
Csg_filter_intersections_starting_inside(self, path, l) ==
    filter_from(self, path, l, 1, TRUE, FALSE, << >>)

\* Csg::filter_intersections
Csg_filter_intersections(self, path, l) == filter_from(self, path, l, 1, FALSE, FALSE, << >>)

\* a CSG that reports itself as hit at the ray's origin
Csg_local_intersect_as_solid(self, path, ray) ==
    << [t |-> 0, object |-> path] >>

\* Csg::local_intersect
Csg_local_intersect(self, path, ray) ==
    Csg_filter_intersections(self, path, sort_by_t(children_intersect(self, path, ray, 1))).result

\* a sphere, a group of two spheres, a union of two spheres
Operands ==
    { Object_new_sphere,
      Object_new([Group_new EXCEPT !.children = <<Object_new_sphere, Object_new_sphere>>]),
      Object_new_csg("Union", Object_new_sphere, Object_new_sphere) }

CsgSolids == { Object_new_csg(op, l, r) : op \in Operations, l \in Operands, r \in Operands }

RECURSIVE Primitives(_, _)
\* the paths of the primitives of a tree
Primitives(o, path) ==
    IF ~IsAggregate(o) THEN {path}
    ELSE UNION { Primitives(o.shape.children[k], Append(path, k)) : k \in 1..Len(o.shape.children) }

\* lists of hits on the primitives of c, at t = 1, 2, ..
HitLists(c) ==
    LET on == UNION { [1..n -> Primitives(c, << >>)] : n \in 0..MaxHits }
    IN { [k \in 1..Len(f) |-> Intersection_new(k, f[k])] : f \in on }

NoFilter == [fn |-> "none"]

CsgInit ==
    /\ csg \in CsgSolids
    /\ csg_xs \in HitLists(csg)
    /\ filtered = NoFilter

CsgOff ==
    /\ csg = None
    /\ csg_xs = << >>
    /\ filtered = NoFilter

\* c.as_csg().filter_intersections(xs)
CallFilterIntersections ==
    /\ filtered = NoFilter
    /\ filtered' = Csg_filter_intersections(csg.shape, << >>, csg_xs)
    /\ UNCHANGED <<csg, csg_xs, notCsg>>

CsgNext ==
    \/ CallFilterIntersections

\* ------------------------------------------------------------------ worlds.rs: refracted_color
\* Refractive indices and cos_i are held in halves (1.5 is 3), transparency and
\* colours in tenths: for these values the f32 arithmetic of the code is exact
\* wherever it decides a comparison.
NoReturn == [fn |-> "none"]

PureOff ==
    /\ pure_args = None
    /\ pure_ret = NoReturn

\* sin2_t > 1.0 for sin2_t = (n1 / n2)^2 * (1 - cos_i^2)
total_internal_reflection(n1, n2, cos_i) == n1 * n1 * (4 - cos_i * cos_i) > 4 * n2 * n2

\* a refracted_color that lets the grazing ray (sin2_t = 1.0) count as reflected
refracted_color_grazing(depth, transparency, n1, n2, cos_i, inner) ==
    IF depth = 0 \/ transparency = 0 \/ n1 * n1 * (4 - cos_i * cos_i) >= 4 * n2 * n2
    THEN [fn |-> "refracted_color", traced |-> FALSE, color |-> 0]
    ELSE [fn |-> "refracted_color", traced |-> TRUE, origin |-> "under_point",
          depth |-> depth - 1, color |-> (inner * transparency) \div 10]

\* World::refracted_color; inner is what the nested color_at returns. The result
\* tells whether color_at was called, from where and with which depth
refracted_color(depth, transparency, n1, n2, cos_i, inner) ==
    IF depth = 0 \/ transparency = 0
    THEN [fn |-> "refracted_color", traced |-> FALSE, color |-> 0]
    ELSE IF total_internal_reflection(n1, n2, cos_i)
    THEN [fn |-> "refracted_color", traced |-> FALSE, color |-> 0]
    ELSE [fn |-> "refracted_color", traced |-> TRUE, origin |-> "under_point",
          depth |-> depth - 1, color |-> (inner * transparency) \div 10]

RefractInit ==
    /\ pure_args \in [ depth : 0..MaxDepth, transparency : {0, 5, 10},
                       n1 : {2, 3, 4}, n2 : {2, 3, 4}, cos_i : 0..2, inner : {0, 10} ]
    /\ pure_ret = NoReturn

\* world.refracted_color(&hit, &comps, depth)
CallRefractedColor ==
    /\ pure_ret = NoReturn
    /\ pure_ret' = refracted_color(pure_args.depth, pure_args.transparency, pure_args.n1,
                                   pure_args.n2, pure_args.cos_i, pure_args.inner)
    /\ UNCHANGED <<pure_args, notPure>>

RefractNext ==
    \/ CallRefractedColor

\* ------------------------------------------------------------------ shapes/cones.rs, shapes/cylinders.rs: caps
\* coordinates.rs EPSILON (0.00001) and floats.rs EPSILON (0.0001) on the
\* scale of a product of two Floats (units of ONE * ONE)
CoordinateEpsilonSq == 1000
FloatEpsilonSq == 10000

\* a * b and a / b of two finite Floats, back on the scale of ONE
Float_mul(a, b) == Quot(a * b, ONE)
Float_quot(a, b) == Quot(a * ONE, b)

\* x.powi(2) + z.powi(2) of the point of the ray at t, in units of ONE * ONE
cap_dist(ray, t) ==
    LET x == ray.origin[1] + Float_mul(t, ray.direction[1])
        z == ray.origin[3] + Float_mul(t, ray.direction[3])
    IN x * x + z * z

Float_abs(a) == IF a < 0 THEN -a ELSE a

\* cones.rs check_cap: x^2 + z^2 <= radius + EPSILON
Cone_check_cap(ray, t, radius) ==
    cap_dist(ray, t) <= radius * ONE + CoordinateEpsilonSq

\* cylinders.rs check_cap: x^2 + z^2 <= 1.0 + EPSILON
Cylinder_check_cap(ray, t) ==
    cap_dist(ray, t) <= ONE * ONE + FloatEpsilonSq

\* Cone::intersect_caps: the t pushed for the lower and the upper cap
Cone_intersect_caps(self, ray) ==
    IF ~self.closed \/ ray.direction[2] = 0 THEN << >>
    ELSE LET t0 == Float_quot(self.minimum - ray.origin[2], ray.direction[2])
             t1 == Float_quot(self.maximum - ray.origin[2], ray.direction[2])
         IN (IF Cone_check_cap(ray, t0, Float_abs(self.minimum)) THEN <<t0>> ELSE << >>)
            \o (IF Cone_check_cap(ray, t1, Float_abs(self.maximum)) THEN <<t1>> ELSE << >>)

\* Cylinder::intersect_caps
Cylinder_intersect_caps(self, ray) ==
    IF ~self.closed \/ ray.direction[2] = 0 THEN << >>
    ELSE LET t0 == Float_quot(self.minimum - ray.origin[2], ray.direction[2])
             t1 == Float_quot(self.maximum - ray.origin[2], ray.direction[2])
         IN (IF Cylinder_check_cap(ray, t0) THEN <<t0>> ELSE << >>)
            \o (IF Cylinder_check_cap(ray, t1) THEN <<t1>> ELSE << >>)

\* heights of the caps and coordinates of ray origins: 0.5, 0.7, 1, 1 + EPSILON, 2 ...
CapHeights == {-2 * ONE, -ONE, -5000, 5000, ONE, 2 * ONE}
CapCoords == {0, 5000, 7000, ONE, ONE + EPSILON, 2 * ONE}

\* rays from below or above, straight or slanted, and one level ray
CapRays ==
    { Ray_new(<<x, y, 0>>, d) :
        x \in CapCoords, y \in {-3 * ONE, 3 * ONE},
        d \in {<<0, ONE, 0>>, <<0, -ONE, 0>>, <<2500, ONE, 0>>, <<ONE, 0, 0>>} }

\* a truncated cone or cylinder and a ray given to its intersect_caps
CapInit ==
    /\ pure_args \in { [kind |-> k, closed |-> c, minimum |-> lo, maximum |-> hi, ray |-> r] :
                         k \in {"cone", "cylinder"}, c \in BOOLEAN,
                         lo \in CapHeights, hi \in CapHeights, r \in CapRays }
    /\ pure_args.minimum < pure_args.maximum
    /\ pure_ret = NoReturn

CallConeIntersectCaps ==
    /\ pure_ret = NoReturn
    /\ pure_args.kind = "cone"
    /\ pure_ret' = [fn |-> "Cone::intersect_caps", xs |-> Cone_intersect_caps(pure_args, pure_args.ray)]
    /\ UNCHANGED <<pure_args, notPure>>

CallCylinderIntersectCaps ==
    /\ pure_ret = NoReturn
    /\ pure_args.kind = "cylinder"
    /\ pure_ret' = [fn |-> "Cylinder::intersect_caps", xs |-> Cylinder_intersect_caps(pure_args, pure_args.ray)]
    /\ UNCHANGED <<pure_args, notPure>>

CapNext ==
    \/ CallConeIntersectCaps
    \/ CallCylinderIntersectCaps

\* ------------------------------------------------------------------ rays against nested groups and CSGs
\* World::intersect over the objects of a world; object k is named <<k>>
World_intersect(objects, ray) ==
    sort_by_t(children_intersect([children |-> objects], << >>, ray, 1))

\* the unit sphere, the sphere moved one unit along x (the two overlap), a plane
NestLeaves ==
    { Object_new_sphere, Object_with_transform(Object_new_sphere, translation(1, 0, 0)), Object_new_plane }

\* a group of two
GroupOf(a, b) == Object_new([Group_new EXCEPT !.children = <<a, b>>])

RECURSIVE Nested(_, _)
\* the objects that hold o under d levels of groups and CSGs
Nested(o, d) ==
    IF d = 0 THEN {o}
    ELSE UNION { { GroupOf(Object_new_sphere, inner), Object_new_csg("Difference", inner, Object_new_sphere) } :
                   inner \in Nested(o, d - 1) }

\* groups and CSGs of two leaves, in both orders, under up to MaxNest levels
NestScenes ==
    LET pairs == { GroupOf(a, b) : a, b \in NestLeaves }
                 \cup { Object_new_csg(op, a, b) : op \in Operations, a, b \in NestLeaves }
    IN UNION { Nested(o, d) : o \in pairs, d \in 0..MaxNest }

NestInit ==
    /\ scene \in NestScenes
    /\ prepared = FALSE
    /\ the_ray \in Rays
    /\ got = NoIntersect

\* scene.prepare()
NestPrepare ==
    /\ scene' = Object_prepare(scene)
    /\ prepared' = TRUE
    /\ got' = NoIntersect
    /\ UNCHANGED <<the_ray, notGeom>>

\* scene.intersect(&ray)
NestIntersect ==
    /\ got' = [fn |-> "intersect", ret |-> Object_intersect(scene, << >>, the_ray)]
    /\ UNCHANGED <<scene, prepared, the_ray, notGeom>>

\* world.intersect(&ray) for the world whose objects are the children of scene
NestWorldIntersect ==
    /\ got' = [fn |-> "world_intersect", ret |-> World_intersect(scene.shape.children, the_ray)]
    /\ UNCHANGED <<scene, prepared, the_ray, notGeom>>

NestNext ==
    \/ NestPrepare
    \/ NestIntersect
    \/ NestWorldIntersect

\* ------------------------------------------------------------------ specifications
\* scene construction and prepare()
TreeSpecInit ==
    /\ TreeInit
    /\ RenderOff
    /\ ColorOff
    /\ IsectOff
    /\ GeomOff
    /\ LensOff
    /\ ShadowOff
    /\ CsgOff
    /\ PureOff

TreeSpec == TreeSpecInit /\ [][TreeNext]_vars

\* one call of Camera::render
RenderSpecInit ==
    /\ RenderInit
    /\ TreeOff
    /\ ColorOff
    /\ IsectOff
    /\ GeomOff
    /\ LensOff
    /\ ShadowOff
    /\ CsgOff
    /\ PureOff

RenderSpec == RenderSpecInit /\ [][RenderNext]_vars

\* one call of Camera::render under a scheduler that lets every thread that can
\* take a step take one eventually (OS threads; the mutexes are only ever held
\* for a bounded number of steps)
FairRenderSpec == RenderSpecInit /\ [][RenderNext]_vars /\ WF_vars(RenderNext)

\* calls of hit, prepare_computations and intersection_allowed on intersection lists
IsectSpecInit ==
    /\ IsectInit
    /\ TreeOff
    /\ RenderOff
    /\ ColorOff
    /\ GeomOff
    /\ LensOff
    /\ ShadowOff
    /\ CsgOff
    /\ PureOff

IsectSpec == IsectSpecInit /\ [][IsectNext]_vars

\* a ray against a group, before and after prepare()
GeomSpecInit ==
    /\ GeomInit
    /\ TreeOff
    /\ RenderOff
    /\ ColorOff
    /\ IsectOff
    /\ LensOff
    /\ ShadowOff
    /\ CsgOff
    /\ PureOff

GeomSpec == GeomSpecInit /\ [][GeomNext]_vars

\* a ray against the unit sphere in its own space
SphereSpecInit ==
    /\ SphereInit
    /\ TreeOff
    /\ RenderOff
    /\ ColorOff
    /\ IsectOff
    /\ LensOff
    /\ ShadowOff
    /\ CsgOff
    /\ PureOff

SphereSpec == SphereSpecInit /\ [][SphereNext]_vars

\* the typed views of an object of any kind
ViewSpecInit ==
    /\ ViewInit
    /\ TreeOff
    /\ RenderOff
    /\ ColorOff
    /\ IsectOff
    /\ LensOff
    /\ ShadowOff
    /\ CsgOff
    /\ PureOff

ViewSpec == ViewSpecInit /\ [][ViewNext]_vars

\* the rays of one pixel for a camera of any sampling
LensSpecInit ==
    /\ LensInit
    /\ TreeOff
    /\ RenderOff
    /\ ColorOff
    /\ IsectOff
    /\ GeomOff
    /\ ShadowOff
    /\ CsgOff
    /\ PureOff

LensSpec == LensSpecInit /\ [][LensNext]_vars

\* one call of is_shadowed
ShadowSpecInit ==
    /\ ShadowInit
    /\ TreeOff
    /\ RenderOff
    /\ ColorOff
    /\ IsectOff
    /\ GeomOff
    /\ LensOff
    /\ CsgOff
    /\ PureOff

ShadowSpec == ShadowSpecInit /\ [][ShadowNext]_vars

\* one call of Csg::filter_intersections
CsgSpecInit ==
    /\ CsgInit
    /\ TreeOff
    /\ RenderOff
    /\ ColorOff
    /\ IsectOff
    /\ GeomOff
    /\ LensOff
    /\ ShadowOff
    /\ PureOff

CsgSpec == CsgSpecInit /\ [][CsgNext]_vars

\* one call of World::refracted_color
RefractSpecInit ==
    /\ RefractInit
    /\ TreeOff
    /\ RenderOff
    /\ ColorOff
    /\ IsectOff
    /\ GeomOff
    /\ LensOff
    /\ ShadowOff
    /\ CsgOff

RefractSpec == RefractSpecInit /\ [][RefractNext]_vars

\* one call of intersect_caps
CapSpecInit ==
    /\ CapInit
    /\ TreeOff
    /\ RenderOff
    /\ ColorOff
    /\ IsectOff
    /\ GeomOff
    /\ LensOff
    /\ ShadowOff
    /\ CsgOff

CapSpec == CapSpecInit /\ [][CapNext]_vars

\* a ray against groups and CSGs nested in each other
NestSpecInit ==
    /\ NestInit
    /\ TreeOff
    /\ RenderOff
    /\ ColorOff
    /\ IsectOff
    /\ LensOff
    /\ ShadowOff
    /\ CsgOff
    /\ PureOff

NestSpec == NestSpecInit /\ [][NestNext]_vars

\* one call of World::color_at; the call is a single thread that keeps running
ColorSpecInit ==
    /\ ColorInit
    /\ TreeOff
    /\ RenderOff
    /\ IsectOff
    /\ GeomOff
    /\ LensOff
    /\ ShadowOff
    /\ CsgOff
    /\ PureOff

ColorSpec == ColorSpecInit /\ [][ColorNext]_vars

FairColorSpec == ColorSpecInit /\ [][ColorNext]_vars /\ WF_vars(ColorNext)

\* ------------------------------------------------------------------ C10
RECURSIVE ChainHolds(_, _, _)
\* o and every descendant of o carry the caches the chain from the root gives:
\* expected_w2o is ok.transform_inverse * ... * o1.transform_inverse * o0.world_to_object,
\* expected_o2w is o0.object_to_world * transpose(o1.transform_inverse) * ...
ChainHolds(o, expected_w2o, expected_o2w) ==
    /\ o.world_to_object = expected_w2o
    /\ o.object_to_world = expected_o2w
    /\ IsAggregate(o) =>
         \A k \in 1..Len(o.shape.children) :
            LET c == o.shape.children[k]
            IN ChainHolds(c, mul(c.transform_inverse, expected_w2o),
                          mul(expected_o2w, transpose(c.transform_inverse)))

\* C10: after prepare() on a root object, however with_transform and add_child
\* were ordered while the tree was built, every descendant's world_to_object is
\* the product of the transform inverses down the chain applied to the root's
\* world_to_object, and its object_to_world the root's object_to_world times the
\* transposed inverses down the chain.
C10_PreparedChain ==
    \A i \in 1..Len(objs) :
        fresh[i] => ChainHolds(objs[i], objs[i].world_to_object, objs[i].object_to_world)

\* a prepared root with a grandchild, all three levels carrying a transform, the
\* child's different from the grandchild's
C10_Witness ==
    \E i \in 1..Len(objs) :
        /\ fresh[i]
        /\ Height(objs[i]) >= 3
        /\ objs[i].transform # Matrix_identity
        /\ \E k \in 1..Len(objs[i].shape.children) :
            LET c == objs[i].shape.children[k]
            IN /\ IsAggregate(c)
               /\ c.transform # Matrix_identity
               /\ \E l \in 1..Len(c.shape.children) :
                    /\ c.shape.children[l].transform # Matrix_identity
                    /\ c.shape.children[l].transform # c.transform

\* ------------------------------------------------------------------ C1 .. C5
Pixels == 1..(cam.hsize * cam.vsize)

Spawned == 0..(cam.threads - 1)

\* number of write_pixel calls worker i has made
WritesBy(i) ==
    LET n[k \in 0..Len(writes)] ==
            IF k = 0 THEN 0 ELSE n[k - 1] + Cardinality({w \in writes[k] : w[1] = i})
    IN n[Len(writes)]

\* C1: when render returns, every pixel (x, y) of the hsize x vsize canvas has been
\* written exactly once, by exactly one worker: the row bands of the workers are
\* pairwise disjoint and together cover the rows 0..vsize.
C1_EveryPixelOnce ==
    mpc = "returned" =>
        /\ \A k \in Pixels : nwrites[k] = 1 /\ Cardinality({w[1] : w \in writes[k]}) = 1
        /\ \A i, j \in Spawned :
             i < j => band_end(cam, i) <= band_start(cam, j)
        /\ \A y \in 0..(cam.vsize - 1) :
             \E i \in Spawned : band_start(cam, i) <= y /\ y < band_end(cam, i)

\* C2: render returns the canvas only after every spawned worker has terminated;
\* at the return the canvas holds every write made, no worker holds a reference
\* to it (try_unwrap succeeds), and the unreachable!() branch is never taken.
C2_JoinBarrier ==
    /\ mpc # "unreachable"
    /\ mpc = "returned" =>
         /\ \A i \in Spawned : wpc[i] = "done"
         /\ image_refs = 1
         /\ image_holders = {}
         /\ result = image
         /\ \A k \in Pixels : \A w \in writes[k] : result.pixels[k] = pixel_color(cam, w[2], w[3])

\* render has returned a canvas two workers wrote into
C2_Witness ==
    /\ mpc = "returned"
    /\ \E k, l \in Pixels : \E v \in writes[k], w \in writes[l] : v[1] # w[1]

\* C3: every write to the shared canvas is made by a worker that holds the canvas
\* mutex, at most one worker holds it at any time, and it is acquired and released
\* once per pixel write: a worker holds it only between its lock and the end of
\* its write_pixel statement, never while it traces a colour.
C3_CanvasMutex ==
    /\ [](Cardinality(image_holders) <= 1)
    /\ [](\A i \in Workers : i \in image_holders <=> wpc[i] \in {"write", "unlock"})
    /\ [](\A i \in Workers :
            nlock[i] = WritesBy(i) + (IF wpc[i] = "write" THEN 1 ELSE 0))
    /\ [][\A k \in DOMAIN writes :
            k \in DOMAIN writes' /\ writes'[k] # writes[k] =>
                \E w \in writes'[k] \ writes[k] : w[1] \in image_holders]_vars
    /\ [][image # NoCanvas /\ image' # image =>
            \E i \in image_holders : wpc[i] = "write" /\ wpc'[i] = "unlock"]_vars

\* one worker writes under the mutex while another waits for it
C3_Witness ==
    \E i, j \in Workers :
        /\ i # j
        /\ wpc[i] = "write"
        /\ i \in image_holders
        /\ wpc[j] = "lock"
        /\ nlock[j] >= 1

\* C4: from the first spawn until render returns the prepared snapshot shared by
\* the workers is never modified: prepare() ran exactly once, before any worker
\* was spawned, and no later step changes the snapshot.
C4_SnapshotImmutable ==
    /\ [](spawned >= 1 => prepare_calls = 1 /\ world = World_prepare(caller_world))
    /\ [][spawned >= 1 => world' = world /\ prepare_calls' = prepare_calls]_vars

\* render returned after two workers traced pixels against a snapshot that
\* prepare() had changed
C4_Witness ==
    /\ mpc = "returned"
    /\ world # caller_world
    /\ \E i, j \in Workers : i # j /\ WritesBy(i) >= 1 /\ WritesBy(j) >= 1

\* no worker asks for one of the two locks while it holds the other
LockOrder ==
    \A i \in Workers :
        /\ ~(i \in image_holders /\ i \in pb_holders)
        /\ i \in image_holders => wpc[i] # "pb_lock"
        /\ i \in pb_holders => wpc[i] # "lock"

\* C5 as stated: every render with hsize, vsize, threads >= 1 and
\* oversampling >= 1 eventually returns, and neither lock is requested while the
\* other is held.
C5_Original ==
    /\ (cam.oversampling >= 1) => <>(mpc = "returned")
    /\ []LockOrder

\* C5, amended: every render with hsize, vsize, threads >= 1, oversampling >= 1
\* and blur_oversampling >= 1 eventually returns under fair scheduling, and
\* neither lock is requested while the other is held.
C5_Terminates ==
    /\ (cam.oversampling >= 1 /\ cam.blur_oversampling >= 1) => <>(mpc = "returned")
    /\ []LockOrder

\* render returned after two workers each went through both locks
C5_Witness ==
    /\ mpc = "returned"
    /\ cam.threads >= 2
    /\ pb >= 2
    /\ \A i \in Spawned : nlock[i] >= 1

\* ------------------------------------------------------------------ C6 .. C9
\* the color_at activations on the stack, outermost first
Nesting == Len(cstack)

\* C6: a call of color_at(ray, depth) returns; each nested call was passed the
\* depth of its caller minus one, depth - 1 is never evaluated at depth 0, and
\* no more than depth + 1 calls of color_at are ever nested
C6_ColorAtTerminates ==
    /\ <>(cstatus = "returned")
    /\ [](Nesting <= cdepth + 1)
    /\ [](~cunderflow)
    /\ [](\A k \in 1..Nesting : cstack[k].depth = cdepth - (k - 1))

\* mutually reflective surfaces with reflective = 1 drive the recursion to depth 0
C6_Witness ==
    /\ cdepth = MaxDepth
    /\ Nesting = cdepth + 1
    /\ \A k \in 1..(Nesting - 1) : cstack[k].material.reflective = 1 /\ cstack[k].pc = "refracted"
    /\ Top.depth = 0
    /\ Top.material.reflective = 1
    /\ Top.pc = "refracted"

\* the intersections of xs that hit may return
Visible(l) == {k \in 1..Len(l) : l[k].t >= 0}

\* C7: hit returns an intersection with t >= 0 whose t is the smallest of those
\* with t >= 0, and none exactly when no intersection has t >= 0
C7_HitIsNearestVisible ==
    last.fn = "hit" =>
        /\ last.ret = 0 <=> Visible(xs) = {}
        /\ last.ret # 0 => /\ last.ret \in Visible(xs)
                           /\ \A k \in Visible(xs) : xs[last.ret].t <= xs[k].t

\* an unsorted list with a negative t in front of the answer
C7_Witness ==
    /\ last.fn = "hit"
    /\ Len(xs) = 3
    /\ xs[1].t > 0
    /\ xs[2].t < 0
    /\ xs[3].t = 0
    /\ last.ret = 3

\* the rule of the CSG operations, by the side of the hit
KeepLeft(op, inr) ==
    \/ op = "Union" /\ ~inr
    \/ op = "Intersection" /\ inr
    \/ op = "Difference" /\ ~inr

KeepRight(op, inl) ==
    \/ op = "Union" /\ ~inl
    \/ op = "Intersection" /\ inl
    \/ op = "Difference" /\ inl

\* C8: intersection_allowed keeps a hit on the left operand exactly when
\* KeepLeft says so and a hit on the right operand exactly when KeepRight does
C8_IntersectionAllowedRule ==
    last.fn = "intersection_allowed" =>
        last.ret = IF last.lhit THEN KeepLeft(last.op, last.inr) ELSE KeepRight(last.op, last.inl)

\* a right hit of a Difference inside the left operand is kept
C8_Witness ==
    /\ last.fn = "intersection_allowed"
    /\ last.op = "Difference"
    /\ ~last.lhit
    /\ last.inl
    /\ last.ret

Sorted(l) == \A i, j \in 1..Len(l) : i <= j => l[i].t <= l[j].t

RECURSIVE Replay(_, _)
\* the containment stack after the first n intersections of l: an object absent
\* is pushed, an object present is removed by identity
Replay(l, n) ==
    IF n = 0 THEN << >>
    ELSE LET before == Replay(l, n - 1)
             i == position(before, l[n].object)
         IN IF i # 0 THEN Vec_remove(before, i) ELSE Append(before, l[n].object)

TopIndex(containers) ==
    IF containers = << >> THEN VACUUM ELSE containers[Len(containers)].refractive_index

\* C9: on a sorted list, prepare_computations on xs[k] gives n1 = the top of the
\* stack replayed up to xs[k-1] and n2 = the top after xs[k] as well, and on the
\* nested spheres of indices 1.5, 2.0, 2.5 the six pairs of the test
C9_ReplayedIndices ==
    (last.fn = "prepare_computations" /\ Sorted(xs)) =>
        /\ last.ret = << TopIndex(Replay(xs, last.k - 1)), TopIndex(Replay(xs, last.k)) >>
        /\ xs = NestedSpheres =>
             last.ret = << <<10, 15>>, <<15, 20>>, <<20, 25>>, <<25, 25>>, <<25, 15>>, <<15, 10>> >>[last.k]

\* ------------------------------------------------------------------ C11 .. C20
\* C11: prepare() on an object that was prepared and not changed since leaves
\* the object, its bounds and cached transforms and those of every descendant,
\* as they are
C11_PrepareIdempotent ==
    \A i \in 1..Len(objs) : fresh[i] => Object_prepare(objs[i]) = objs[i]

\* a prepared, transformed group whose first child is transformed too
C11_Witness ==
    \E i \in 1..Len(objs) :
        /\ fresh[i]
        /\ objs[i].shape.kind = "group"
        /\ objs[i].transform # Matrix_identity
        /\ objs[i].shape.children # << >>
        /\ objs[i].shape.children[1].transform # Matrix_identity
        /\ objs[i].bounds # Bounds_default
        /\ Object_prepare(objs[i]) = objs[i]

\* what the children of the root group give for the ray of the last call
ChildrenHits ==
    Group_intersect_children(scene.shape, << >>, Ray_transform(the_ray, scene.transform_inverse))

\* C12: on a prepared group, intersect with the bounding-box test returns the
\* list that intersecting all the children gives
C12_BoxTestChangesNothing ==
    (got.fn = "intersect" /\ prepared) => got.ret = ChildrenHits

\* C15: a group with no children gives no intersection for any ray, before
\* and after prepare()
C15_EmptyGroupNoHit ==
    (got.fn = "intersect" /\ scene.shape.children = << >>) => got.ret = << >>

\* the prepared empty group, whose bounds are the empty box
C15_Witness ==
    /\ got.fn = "intersect"
    /\ scene.shape.children = << >>
    /\ prepared
    /\ scene.bounds = Bounds_empty
    /\ scene.transform # Matrix_identity
    /\ got.ret = << >>

\* the squared distance of the sphere's centre from the line of a ray along an axis
Offset2 == dot(the_ray.origin, the_ray.origin) - dot(the_ray.origin, the_ray.direction) * dot(the_ray.origin, the_ray.direction)

\* C16: the sphere gives no intersection or two, the nearer first, the two equal
\* when the ray is tangent; the ray of the test gives t = 5, 5
C16_SphereRoots ==
    got.fn = "local_intersect" =>
        /\ Len(got.ret) \in {0, 2}
        /\ Len(got.ret) = 2 <=> Offset2 <= 1
        /\ Len(got.ret) = 2 => got.ret[1].t <= got.ret[2].t
        /\ Offset2 = 1 => got.ret[1].t = got.ret[2].t
        /\ the_ray = TangentRay => <<got.ret[1].t, got.ret[2].t>> = <<5, 5>>

C16_Witness ==
    /\ got.fn = "local_intersect"
    /\ the_ray = TangentRay
    /\ Len(got.ret) = 2
    /\ got.ret[1].t = 5
    /\ got.ret[2].t = 5

\* the payload kind a view is for
KindOf(view) ==
    CASE view \in {"as_cone", "as_mut_cone"}         -> "cone"
      [] view = "as_cube"                            -> "cube"
      [] view \in {"as_cylinder", "as_mut_cylinder"} -> "cylinder"
      [] view \in {"as_group", "as_mut_group"}       -> "group"
      [] view = "as_plane"                           -> "plane"
      [] view = "as_sphere"                          -> "sphere"

\* C13: a typed view returns the payload when the object's payload is of the
\* view's kind and panics for every other kind
C13_TypedViews ==
    got.fn = "view" =>
        IF scene.shape.kind = KindOf(got.view)
          THEN ~got.ret.panic /\ got.ret.payload = scene.shape
          ELSE got.ret.panic

\* a cone asked for its cylinder
C13_Witness ==
    /\ got.fn = "view"
    /\ got.view = "as_mut_cylinder"
    /\ scene.shape.kind = "cone"
    /\ got.ret.panic

\* C14: a transform that is not invertible, given to with_transform, raises no
\* panic
C14_DegenerateTransformHandled ==
    got.fn = "with_transform" => ~got.panic

\* the rays returned for sub-sample (dx, dy)
RaysOf(dx, dy) == { k \in 1..Len(rays) : rays[k].dx = dx /\ rays[k].dy = dy }

\* C17: rays_for_pixel returns rays for each of the N * N sub-samples and for
\* no other, and with aperture = 0 or M = 1 one ray for each, N * N in all
\* (M >= 1: a camera that samples the lens at all)
C17_OneRayPerSubSample ==
    (rays # NoRays /\ lens.blur_oversampling >= 1) =>
        /\ \A k \in 1..Len(rays) : rays[k].dx \in 0..(lens.oversampling - 1) /\ rays[k].dy \in 0..(lens.oversampling - 1)
        /\ \A dx, dy \in 0..(lens.oversampling - 1) : RaysOf(dx, dy) # {}
        /\ (lens.aperture = 0 \/ lens.blur_oversampling = 1) =>
             /\ Len(rays) = lens.oversampling * lens.oversampling
             /\ \A dx, dy \in 0..(lens.oversampling - 1) : Cardinality(RaysOf(dx, dy)) = 1

\* the distance from the point to the light
LightDistance == Tuple_magnitude(Tuple_sub(probe.light_position, probe.point))

\* C18: is_shadowed is true iff hit_fn returns a distance strictly smaller than
\* the distance from the point to the light; no hit, a hit on the light or a
\* hit beyond it is no shadow
C18_ShadowIffHitBeforeLight ==
    shadow.fn = "is_shadowed" =>
        /\ shadow.ret <=> (\E t \in 0..(LightDistance - 1) : probe.hit_fn = Some(t))
        /\ probe.hit_fn = NoHit => ~shadow.ret
        /\ \A t \in LightDistance..(2 * MaxCoord + 2) : probe.hit_fn = Some(t) => ~shadow.ret

C18_Witness ==
    /\ shadow.fn = "is_shadowed"
    /\ LightDistance = MaxCoord
    /\ probe.hit_fn = Some(MaxCoord)
    /\ ~shadow.ret

\* hit k is on the left child
IsLeft(k) == Head(csg_xs[k].object) = 1

\* the flags before hit k: an odd number of earlier hits on that side
LeftBefore(k) == Cardinality({ j \in 1..(k - 1) : IsLeft(j) }) % 2 = 1
RightBefore(k) == Cardinality({ j \in 1..(k - 1) : ~IsLeft(j) }) % 2 = 1

\* the hits of csg_xs whose index is in S, in list order
Keep(S) ==
    LET f[k \in 0..Len(csg_xs)] ==
            IF k = 0 THEN << >>
            ELSE IF k \in S THEN Append(f[k - 1], csg_xs[k]) ELSE f[k - 1]
    IN f[Len(csg_xs)]

Times(l) == [k \in 1..Len(l) |-> l[k].t]

LeftRightLeftRight ==
    /\ Len(csg_xs) = 4
    /\ IsLeft(1) /\ ~IsLeft(2) /\ IsLeft(3) /\ ~IsLeft(4)

\* C19: filter_intersections starts with both flags false, tests each hit
\* against the flags as they are before it and toggles the flag of the hit's
\* side afterwards; hits left, right, left, right at t = 1, 2, 3, 4 leave
\* [1, 4] for Union, [2, 3] for Intersection, [1, 2] for Difference
C19_FilterTestsThenToggles ==
    filtered.fn = "filter_intersections" =>
        /\ filtered.result =
             Keep({ k \in 1..Len(csg_xs) :
                      intersection_allowed(csg.shape.operation, IsLeft(k), LeftBefore(k), RightBefore(k)) })
        /\ LeftRightLeftRight =>
             Times(filtered.result) =
                 CASE csg.shape.operation = "Union"        -> <<1, 4>>
                   [] csg.shape.operation = "Intersection" -> <<2, 3>>
                   [] csg.shape.operation = "Difference"   -> <<1, 2>>

C19_Witness ==
    /\ filtered.fn = "filter_intersections"
    /\ LeftRightLeftRight
    /\ csg.shape.operation = "Difference"
    /\ Times(filtered.result) = <<1, 2>>

\* membership in the combined solid
Inside(op, inl, inr) ==
    CASE op = "Union"        -> inl \/ inr
      [] op = "Intersection" -> inl /\ inr
      [] op = "Difference"   -> inl /\ ~inr

\* hit k changes the ray's membership in the combined solid
ChangesMembership(k) ==
    Inside(csg.shape.operation, LeftBefore(k), RightBefore(k))
        # Inside(csg.shape.operation, LeftBefore(k + 1), RightBefore(k + 1))

EvenPerChild ==
    /\ Cardinality({ k \in 1..Len(csg_xs) : IsLeft(k) }) % 2 = 0
    /\ Cardinality({ k \in 1..Len(csg_xs) : ~IsLeft(k) }) % 2 = 0

\* C20: the hits kept are those that change membership in the combined solid,
\* in list order; with an even number of hits on each child the result has
\* even length and both flags end false
C20_KeepsMembershipChanges ==
    filtered.fn = "filter_intersections" =>
        /\ filtered.result = Keep({ k \in 1..Len(csg_xs) : ChangesMembership(k) })
        /\ EvenPerChild => /\ Len(filtered.result) % 2 = 0
                           /\ ~filtered.inl
                           /\ ~filtered.inr

C20_Witness ==
    /\ filtered.fn = "filter_intersections"
    /\ Len(csg_xs) = MaxHits
    /\ EvenPerChild
    /\ csg.shape.operation = "Intersection"
    /\ csg.shape.children[1].shape.kind = "group"
    /\ Len(filtered.result) = 2

\* ------------------------------------------------------------------ C21 .. C30
\* sin2_t as a fraction: SinNum / SinDen
SinNum == pure_args.n1 * pure_args.n1 * (4 - pure_args.cos_i * pure_args.cos_i)
SinDen == 4 * pure_args.n2 * pure_args.n2

\* C21: refracted_color returns black and traces no ray when depth = 0, when
\* the transparency is 0 or when sin2_t > 1; otherwise it returns the colour of
\* color_at(ray from under_point, depth - 1) scaled by the transparency
C21_RefractedColorCases ==
    pure_ret.fn = "refracted_color" =>
        IF pure_args.depth = 0 \/ pure_args.transparency = 0 \/ SinNum > SinDen
        THEN ~pure_ret.traced /\ pure_ret.color = 0
        ELSE /\ pure_ret.traced
             /\ pure_ret.origin = "under_point"
             /\ pure_ret.depth = pure_args.depth - 1
             /\ 10 * pure_ret.color = pure_args.inner * pure_args.transparency

\* the grazing ray (sin2_t = 1) of a half transparent surface is traced
C21_Witness ==
    /\ pure_ret.fn = "refracted_color"
    /\ SinNum = SinDen
    /\ pure_args.transparency = 5
    /\ pure_args.inner = 10
    /\ pure_ret.traced
    /\ pure_ret.color = 5

\* what the children of the root give, one after the other, before any sort
Merged == children_intersect(scene.shape, << >>, Ray_transform(the_ray, scene.transform_inverse), 1)

\* what the objects of the world give, one after the other
WorldMerged == children_intersect([children |-> scene.shape.children], << >>, the_ray, 1)

\* the same intersections, each as many times
SameBag(a, b) ==
    /\ Len(a) = Len(b)
    /\ \A x \in {a[k] : k \in 1..Len(a)} :
         Cardinality({k \in 1..Len(a) : a[k] = x}) = Cardinality({k \in 1..Len(b) : b[k] = x})

RECURSIVE ObjectAt(_, _)
\* the object a path names under o
ObjectAt(o, path) ==
    IF path = << >> THEN o ELSE ObjectAt(o.shape.children[Head(path)], Tail(path))

\* the levels of groups and CSGs above the deepest primitive of o
RECURSIVE Depth(_)
Depth(o) ==
    IF ~IsAggregate(o) THEN 0
    ELSE 1 + (CHOOSE d \in {Depth(o.shape.children[k]) : k \in 1..Len(o.shape.children)} :
                \A k \in 1..Len(o.shape.children) : Depth(o.shape.children[k]) <= d)

\* C26: every intersection that intersect returns for a group or a CSG, nested
\* or not, is on a primitive below it, never on a group or a CSG
C26_HitsArePrimitives ==
    got.fn \in {"intersect", "world_intersect"} =>
        \A k \in 1..Len(got.ret) :
            /\ got.ret[k].object \in Primitives(scene, << >>)
            /\ ~IsAggregate(ObjectAt(scene, got.ret[k].object))

\* hits through a CSG that holds a group or a CSG
C26_Witness ==
    /\ got.fn = "intersect"
    /\ scene.shape.kind = "csg"
    /\ Depth(scene) >= 2
    /\ \E k \in 1..Len(got.ret) : Len(got.ret[k].object) >= 2

RECURSIVE Below(_)
\* o and every object under it
Below(o) ==
    IF ~IsAggregate(o) THEN {o}
    ELSE {o} \cup UNION { Below(o.shape.children[k]) : k \in 1..Len(o.shape.children) }

\* every object scene construction holds, at any level
AllObjects == UNION { Below(objs[i]) : i \in 1..Len(objs) }

\* C23: the bounds of every object built by construction, add_child and
\* prepare(), a childless group included, have min <= max on each axis
C23_BoundsOrdered ==
    \A o \in AllObjects : \A a \in 1..3 : Float_le(o.bounds.min[a], o.bounds.max[a])

\* a group that holds primitives only, at least one
GroupOfPrimitives(o) ==
    /\ o.shape.kind = "group"
    /\ o.shape.children # << >>
    /\ \A k \in 1..Len(o.shape.children) : ~IsAggregate(o.shape.children[k])

\* C24: after add_child and with_transform of a child the stored bounds of a
\* group equal the bounds prepare() would compute, so that they enclose the
\* transformed bounds of its children
C24_BoundsUpToDate ==
    \A i \in 1..Len(objs) :
        GroupOfPrimitives(objs[i]) => objs[i].bounds = Object_prepare_bounds(objs[i]).bounds

\* height of the point of the ray at t
CapY(t) == pure_args.ray.origin[2] + Float_mul(t, pure_args.ray.direction[2])

\* the radius of the cap at height y: |y| for a cone, 1 for a cylinder
CapRadius(y) == IF pure_args.kind = "cone" THEN Float_abs(y) ELSE ONE

\* C25: a cap hit is accepted only if its distance from the y axis is at most
\* the radius of the cap (|y| for a cone, 1 for a cylinder) inflated by epsilon
C25_CapWithinRadius ==
    pure_ret.fn \in {"Cone::intersect_caps", "Cylinder::intersect_caps"} =>
        \A k \in 1..Len(pure_ret.xs) :
            LET r == CapRadius(CapY(pure_ret.xs[k])) + EPSILON
            IN cap_dist(pure_args.ray, pure_ret.xs[k]) <= r * r

RECURSIVE ContainersAfter(_, _)
\* the containers once the first j intersections of l are replayed
ContainersAfter(l, j) ==
    IF j = 0 THEN << >> ELSE containers_toggle(ContainersAfter(l, j - 1), l[j].object)

\* where the replay for xs[k] stops: the first intersection with the t of xs[k]
LastReplayed(l, k) == CHOOSE j \in 1..k : l[j].t = l[k].t /\ \A i \in 1..(j - 1) : l[i].t # l[k].t

NoDuplicate(c) == \A i, j \in 1..Len(c) : c[i].id = c[j].id => i = j

\* every object occurs an even number of times among the first j intersections
EvenPrefix(l, j) ==
    \A o \in IsectObjects : Cardinality({i \in 1..j : l[i].object.id = o.id}) % 2 = 0

\* C27: during the replay of find_refraction_indices the containers never
\* hold an object twice; after a prefix in which every object occurs an even
\* number of times they are empty, and the n2 of that last exit is 1.0
C27_ContainersToggle ==
    last.fn = "prepare_computations" =>
        LET p == LastReplayed(xs, last.k)
        IN /\ \A j \in 0..p : NoDuplicate(ContainersAfter(xs, j))
           /\ EvenPrefix(xs, p) => ContainersAfter(xs, p) = << >> /\ last.ret[2] = VACUUM

\* the last exit of the three nested spheres
C27_Witness ==
    /\ last.fn = "prepare_computations"
    /\ xs = NestedSpheres
    /\ last.k = 6
    /\ EvenPrefix(xs, 6)
    /\ last.ret[2] = VACUUM

\* the canvas render returns for camera c, whatever the schedule: the colour of
\* (x, y) at index y * hsize + x for the rows of the bands, BLACK elsewhere
RenderedCanvas(c) ==
    [ width |-> c.hsize, height |-> c.vsize,
      pixels |-> [k \in 1..(c.hsize * c.vsize) |->
                    LET x == (k - 1) % c.hsize
                        y == (k - 1) \div c.hsize
                    IN IF y < chunk_size(c) * c.threads THEN pixel_color(c, x, y) ELSE BLACK] ]

\* C28: with no random sampling (blur_oversampling = 1) the canvas render
\* returns is the same for every interleaving of the workers: an index
\* y * width + x is written only for its own in-range (x, y), and a write_pixel
\* changes no other pixel
C28_CanvasIndependentOfSchedule ==
    /\ [](mpc = "returned" /\ cam.blur_oversampling = 1 => result = RenderedCanvas(cam))
    /\ [](\A k \in DOMAIN writes : \A w \in writes[k] :
            /\ w[2] \in 0..(cam.hsize - 1)
            /\ w[3] \in 0..(cam.vsize - 1)
            /\ k = w[3] * cam.hsize + w[2] + 1)
    /\ [][\A k \in DOMAIN image.pixels :
            k \in DOMAIN image'.pixels /\ image'.pixels[k] # image.pixels[k] =>
                \E i \in Workers : wpc[i] = "write" /\ k = wy[i] * cam.hsize + wx[i] + 1]_vars

\* render returned a canvas of two columns that two workers wrote into
C28_Witness ==
    /\ mpc = "returned"
    /\ cam.blur_oversampling = 1
    /\ cam.hsize >= 2
    /\ cam.threads = 2
    /\ \A i \in Spawned : WritesBy(i) >= 2
    /\ result = RenderedCanvas(cam)

\* C29: render never modifies the World of the caller: prepare() is applied
\* to a clone
C29_CallerWorldUntouched ==
    /\ [][caller_world' = caller_world]_vars
    /\ [](mpc \notin {"start", "off"} => world = World_prepare(caller_world))

\* render returned after prepare() changed the bounds of an object of the
\* clone
C29_Witness ==
    /\ mpc = "returned"
    /\ \E k \in 1..Len(world.objects) : world.objects[k].bounds # caller_world.objects[k].bounds

AnyPanicked == \E i \in Workers : wpc[i] = "panicked"

====
